---- MODULE Spec2Model ----
(***************************************************************************)
(* Model of the import pipeline of imalink-desktop (src/src/main.ts):      *)
(* the companion-file grouper groupCompanionFiles and the orchestrator     *)
(* startImport together with the user-event handlers that share its state. *)
(*                                                                         *)
(* A JavaScript string is modelled as a sequence of one-character strings, *)
(* so that split, lastIndexOf, substring, toLowerCase and includes are     *)
(* computed as the code computes them.                                     *)
(***************************************************************************)
EXTENDS Integers, Sequences, FiniteSets, TLC

(***************************************************************************)
(* String primitives                                                       *)
(***************************************************************************)

\* s.substring(from, to) with 1-based inclusive bounds
Substring(s, from, to) == [k \in 1..(to - from + 1) |-> s[from + k - 1]]

\* s.lastIndexOf(c), 1-based; 0 stands for JavaScript's -1
LastIndexOf(s, c) ==
    LET hits == {k \in 1..Len(s) : s[k] = c}
    IN  IF hits = {} THEN 0 ELSE CHOOSE k \in hits : \A m \in hits : m <= k

\* s.split(sep) for a one-character separator
RECURSIVE Split(_, _)
Split(s, sep) ==
    LET hits == {k \in 1..Len(s) : s[k] = sep}
    IN  IF hits = {} THEN <<s>>
        ELSE LET k == CHOOSE h \in hits : \A m \in hits : h <= m
             IN  <<Substring(s, 1, k - 1)>> \o Split(Substring(s, k + 1, Len(s)), sep)

\* parts.join(sep)
RECURSIVE Join(_, _)
Join(parts, sep) ==
    IF Len(parts) = 0 THEN <<>>
    ELSE IF Len(parts) = 1 THEN parts[1]
    ELSE parts[1] \o <<sep>> \o Join(Tail(parts), sep)

UpperToLower ==
    ("J" :> "j") @@ ("P" :> "p") @@ ("G" :> "g") @@ ("C" :> "c") @@ ("R" :> "r")

\* s.toLowerCase()
ToLowerCase(s) ==
    [k \in 1..Len(s) |-> IF s[k] \in DOMAIN UpperToLower THEN UpperToLower[s[k]] ELSE s[k]]

\* s.includes(sub)
Includes(s, sub) ==
    \E k \in 1..(Len(s) - Len(sub) + 1) : Substring(s, k, k + Len(sub) - 1) = sub

\* parts.pop() || whole : the last '/'-separated part, or the whole string when that part is empty
PopOr(s) ==
    LET parts == Split(s, "/")
        last  == parts[Len(parts)]
    IN  IF last = <<>> THEN s ELSE last

(***************************************************************************)
(* Companion file detection                                                *)
(***************************************************************************)

e_jpg  == <<"j", "p", "g">>
e_jpeg == <<"j", "p", "e", "g">>
e_heic == <<"h", "e", "i", "c">>
e_png  == <<"p", "n", "g">>
e_cr2  == <<"c", "r", "2">>
e_nef  == <<"n", "e", "f">>
e_arw  == <<"a", "r", "w">>
e_dng  == <<"d", "n", "g">>
e_orf  == <<"o", "r", "f">>
e_rw2  == <<"r", "w", "2">>
e_raw  == <<"r", "a", "w">>

\* priorities with a slip in the rank of png
priorities_PngSlip ==
    (e_jpg :> 1) @@ (e_jpeg :> 1) @@ (e_heic :> 2) @@ (e_png :> 30) @@
    (e_cr2 :> 10) @@ (e_nef :> 10) @@ (e_arw :> 10) @@ (e_dng :> 10) @@
    (e_orf :> 10) @@ (e_rw2 :> 10) @@ (e_raw :> 10)

\* File extension priorities (lower = preferred master)
priorities ==
    (e_jpg :> 1) @@ (e_jpeg :> 1) @@ (e_heic :> 2) @@ (e_png :> 3) @@
    (e_cr2 :> 10) @@ (e_nef :> 10) @@ (e_arw :> 10) @@ (e_dng :> 10) @@
    (e_orf :> 10) @@ (e_rw2 :> 10) @@ (e_raw :> 10)

\* priorities[ext] || 99
PriorityOf(ext) == IF ext \in DOMAIN priorities THEN priorities[ext] ELSE 99

\* ParsePath looking for the last '.' of the whole path instead of the file name
ParsePath_DotInPath(filePath) ==
    LET parts     == Split(filePath, "/")
        fileName  == parts[Len(parts)]
        directory == Join(SubSeq(parts, 1, Len(parts) - 1), "/")
        lastDot   == LastIndexOf(fileName, ".")
        basename  == Substring(fileName, 1, lastDot - 1)
        ext       == ToLowerCase(Substring(fileName, lastDot + 1, Len(fileName)))
    IN  [hasExt   |-> LastIndexOf(filePath, ".") # 0,
         groupKey |-> directory \o <<"/">> \o basename,
         ext      |-> ext,
         priority |-> PriorityOf(ext)]

\* ParsePath with the stem alone as group key
ParsePath_StemKey(filePath) ==
    LET parts     == Split(filePath, "/")
        fileName  == parts[Len(parts)]
        lastDot   == LastIndexOf(fileName, ".")
        basename  == Substring(fileName, 1, lastDot - 1)
        ext       == ToLowerCase(Substring(fileName, lastDot + 1, Len(fileName)))
    IN  [hasExt   |-> lastDot # 0,
         groupKey |-> basename,
         ext      |-> ext,
         priority |-> PriorityOf(ext)]

\* One iteration of the first loop: the parts of one file path.
\* hasExt is FALSE when the file name has no '.', i.e. the path is skipped.
ParsePath(filePath) ==
    LET parts     == Split(filePath, "/")
        fileName  == parts[Len(parts)]
        directory == Join(SubSeq(parts, 1, Len(parts) - 1), "/")
        lastDot   == LastIndexOf(fileName, ".")
        basename  == Substring(fileName, 1, lastDot - 1)
        ext       == ToLowerCase(Substring(fileName, lastDot + 1, Len(fileName)))
    IN  [hasExt   |-> lastDot # 0,
         groupKey |-> directory \o <<"/">> \o basename,
         ext      |-> ext,
         priority |-> PriorityOf(ext)]

\* BuildGroups putting each file at the head of its group (unshift for push)
RECURSIVE BuildGroups_Unshift(_, _)
BuildGroups_Unshift(filePaths, groups) ==
    IF filePaths = <<>> THEN groups
    ELSE LET filePath == Head(filePaths)
             p        == ParsePath(filePath)
             at       == {k \in 1..Len(groups) : groups[k].key = p.groupKey}
             withKey  == IF at = {}
                         THEN Append(groups, [key |-> p.groupKey, files |-> <<>>,
                                              exts |-> <<>>, priorities |-> <<>>])
                         ELSE groups
             k        == CHOOSE j \in 1..Len(withKey) : withKey[j].key = p.groupKey
             pushed   == [withKey EXCEPT ![k] =
                             [key        |-> @.key,
                              files      |-> <<filePath>> \o @.files,
                              exts       |-> <<p.ext>> \o @.exts,
                              priorities |-> <<p.priority>> \o @.priorities]]
         IN  IF ~p.hasExt
             THEN BuildGroups_Unshift(Tail(filePaths), groups)
             ELSE BuildGroups_Unshift(Tail(filePaths), pushed)

\* BuildGroups putting a new key before the keys seen so far
RECURSIVE BuildGroups_NewFirst(_, _)
BuildGroups_NewFirst(filePaths, groups) ==
    IF filePaths = <<>> THEN groups
    ELSE LET filePath == Head(filePaths)
             p        == ParsePath(filePath)
             at       == {k \in 1..Len(groups) : groups[k].key = p.groupKey}
             withKey  == IF at = {}
                         THEN <<[key |-> p.groupKey, files |-> <<>>,
                                 exts |-> <<>>, priorities |-> <<>>]>> \o groups
                         ELSE groups
             k        == CHOOSE j \in 1..Len(withKey) : withKey[j].key = p.groupKey
             pushed   == [withKey EXCEPT ![k] =
                             [key        |-> @.key,
                              files      |-> Append(@.files, filePath),
                              exts       |-> Append(@.exts, p.ext),
                              priorities |-> Append(@.priorities, p.priority)]]
         IN  IF ~p.hasExt
             THEN BuildGroups_NewFirst(Tail(filePaths), groups)
             ELSE BuildGroups_NewFirst(Tail(filePaths), pushed)

\* The insertion-ordered Map `groups`: a sequence of entries
\* [key, files, exts, priorities], one per group key, in first-insertion order.
RECURSIVE BuildGroups(_, _)
BuildGroups(filePaths, groups) ==
    IF filePaths = <<>> THEN groups
    ELSE LET filePath == Head(filePaths)
             p        == ParsePath(filePath)
             at       == {k \in 1..Len(groups) : groups[k].key = p.groupKey}
             withKey  == IF at = {}
                         THEN Append(groups, [key |-> p.groupKey, files |-> <<>>,
                                              exts |-> <<>>, priorities |-> <<>>])
                         ELSE groups
             k        == CHOOSE j \in 1..Len(withKey) : withKey[j].key = p.groupKey
             pushed   == [withKey EXCEPT ![k] =
                             [key        |-> @.key,
                              files      |-> Append(@.files, filePath),
                              exts       |-> Append(@.exts, p.ext),
                              priorities |-> Append(@.priorities, p.priority)]]
         IN  IF ~p.hasExt
             THEN BuildGroups(Tail(filePaths), groups)
             ELSE BuildGroups(Tail(filePaths), pushed)

\* MasterIndex with <= for <: among equal priorities the last one wins
RECURSIVE MasterIndex_LastWins(_, _)
MasterIndex_LastWins(prios, n) ==
    IF n = 1 THEN 1
    ELSE LET m == MasterIndex_LastWins(prios, n - 1)
         IN  IF prios[n] <= prios[m] THEN n ELSE m

\* The scan for the master: masterIndex after looking at priorities[1..n]
RECURSIVE MasterIndex(_, _)
MasterIndex(prios, n) ==
    IF n = 1 THEN 1
    ELSE LET m == MasterIndex(prios, n - 1)
         IN  IF prios[n] < prios[m] THEN n ELSE m

\* RemoveAt that filters nothing
RemoveAt_KeepsAll(s, idx) == s

\* files.filter((_, i) => i !== masterIndex)
RemoveAt(s, idx) == [k \in 1..(Len(s) - 1) |-> IF k < idx THEN s[k] ELSE s[k + 1]]

\* ToCompanionGroup with the whole grouping key as basename
ToCompanionGroup_KeyAsBasename(group) ==
    LET masterIndex == MasterIndex(group.priorities, Len(group.priorities))
    IN  [basename       |-> group.key,
         masterFile     |-> group.files[masterIndex],
         companionFiles |-> RemoveAt(group.files, masterIndex),
         allFiles       |-> group.files,
         masterPriority |-> group.priorities[masterIndex]]

\* One iteration of the second loop: the CompanionGroup of one map entry
ToCompanionGroup(group) ==
    LET masterIndex == MasterIndex(group.priorities, Len(group.priorities))
    IN  [basename       |-> PopOr(group.key),
         masterFile     |-> group.files[masterIndex],
         companionFiles |-> RemoveAt(group.files, masterIndex),
         allFiles       |-> group.files,
         masterPriority |-> group.priorities[masterIndex]]

groupCompanionFiles(filePaths) ==
    LET groups == BuildGroups(filePaths, <<>>)
    IN  [k \in 1..Len(groups) |-> ToCompanionGroup(groups[k])]

(***************************************************************************)
(* Bounds of the model                                                     *)
(***************************************************************************)

\* startImport invocations that can be suspended at the same time
MaxBatches == 2
\* scan_directory calls that can be pending at the same time
MaxScans == 1
\* length of the input lists the grouper is applied to on its own
MaxFiles == 3
\* user events handled after the first batch has started
MaxEvents == 2
\* logout calls that can be pending at the same time
MaxLogouts == 1

(***************************************************************************)
(* Values                                                                  *)
(***************************************************************************)

\* null of the number-typed selectedInputChannelId
NullId == 0
\* null of authToken, and an absent (undefined) string field
Null == "null"
\* null of the string-typed selectedDirPath
NullPath == <<"null">>
\* the empty string, value of an untouched text input
Empty == <<>>

Str_media == <<"/", "m", "e", "d", "i", "a", "/">>
Str_mnt   == <<"/", "m", "n", "t", "/">>

DirD == <<"/", "d">>
DirM == <<"/", "m", "n", "t", "/", "e">>
Dest == <<"/", "s">>
Dirs == {DirD, DirM}

Tokens     == {"t1"}
\* the user a login response carries
User       == "u1"
ChannelIds == {1, 2}

File(dir, name) == dir \o <<"/">> \o name
n_a_jpg == <<"a", ".", "j", "p", "g">>
n_a_cr2 == <<"a", ".", "c", "r", "2">>
n_b_nef == <<"b", ".", "n", "e", "f">>
n_c_JPG == <<"c", ".", "J", "P", "G">>
n_a_nef == <<"a", ".", "n", "e", "f">>
n_n     == <<"n">>

\* what scan_directory may answer for a directory: one group with a companion
SmallScans(dir) == { <<File(dir, n_a_cr2), File(dir, n_a_jpg)>> }

\* what scan_directory may answer for a directory: nothing, three groups one
\* of which has a companion, one group next to a file without extension, or
\* one group with two companions
RichScans(dir) ==
    { <<>>,
      <<File(dir, n_a_cr2), File(dir, n_a_jpg), File(dir, n_b_nef), File(dir, n_c_JPG)>>,
      <<File(dir, n_a_jpg), File(dir, n_n)>>,
      <<File(dir, n_a_cr2), File(dir, n_a_jpg), File(dir, n_a_nef)>> }

\* what scan_directory may answer for a directory: two groups, the first
\* with a companion
PairScans(dir) == { <<File(dir, n_a_cr2), File(dir, n_a_jpg), File(dir, n_b_nef)>> }

(***************************************************************************)
(* State                                                                   *)
(***************************************************************************)

VARIABLES
    authToken,               \* let authToken
    selectedFiles,           \* let selectedFiles
    selectedDirPath,         \* let selectedDirPath
    selectedInputChannelId,  \* let selectedInputChannelId
    startDisabled,           \* #start-import .disabled
    status,                  \* #status .textContent, by the statement that wrote it
    copyChecked,             \* input[name="import-mode"][value="copy"] .checked
    destinationPath,         \* #destination-path .value
    scans,                   \* pending scan_directory calls (their dirPath)
    batches,                 \* the startImport invocations, by slot
    progressText,            \* #progress-text .textContent and #progress-fill width
    events,                  \* user events handled since the first batch started
    filePaths,               \* input of a stand-alone groupCompanionFiles call
    grouped,                 \* whether that call has returned
    companionGroups,         \* its result
    currentUser,             \* let currentUser
    logouts                  \* pending logout calls of handleLogout

vars == <<authToken, selectedFiles, selectedDirPath, selectedInputChannelId,
          startDisabled, status, copyChecked, destinationPath, scans, batches, events,
          progressText, filePaths, grouped, companionGroups, currentUser, logouts>>

globals == <<authToken, selectedFiles, selectedDirPath, selectedInputChannelId,
             copyChecked, destinationPath, scans>>
grouper == <<filePaths, grouped, companionGroups>>
session == <<currentUser, logouts>>

Slots == 1..MaxBatches

\* a slot no startImport invocation lives in
IdleBatch ==
    [pc |-> "idle", isCopyMode |-> FALSE, destinationPath |-> Empty,
     inputChannelId |-> NullId, companionGroups |-> <<>>, i |-> 0, c |-> 0,
     photoCreateSchema |-> [hothash |-> Null, image_file_list |-> <<>>,
                            image_file_list_defined |-> FALSE,
                            input_channel_id |-> NullId],
     localStorageInfo |-> [import_mode |-> Null], results |-> <<>>,
     calls |-> <<>>, summary |-> [groups |-> 0]]

\* the progress display before any batch has written it
NoProgress == [group |-> 0, of |-> 0, file |-> <<>>]

InFlight(b) == batches[b].pc \notin {"idle", "done"}

\* no batch has started yet
Fresh == \A b \in Slots : batches[b].pc = "idle"

\* a user event is handled: it counts once a batch has started
UserEvent ==
    /\ Fresh \/ events < MaxEvents
    /\ events' = IF Fresh THEN events ELSE events + 1

\* The module's initial values; the start button's initial disabled attribute
\* comes from the page markup, so both values are taken.
Init ==
    /\ authToken = Null
    /\ selectedFiles = <<>>
    /\ selectedDirPath = NullPath
    /\ selectedInputChannelId = NullId
    /\ startDisabled \in BOOLEAN
    /\ status = "none"
    /\ copyChecked = FALSE
    /\ destinationPath = Empty
    /\ scans = <<>>
    /\ batches = [b \in Slots |-> IdleBatch]
    /\ progressText = NoProgress
    /\ events = 0
    /\ filePaths = <<>>
    /\ grouped = FALSE
    /\ companionGroups = <<>>
    /\ currentUser = Null
    /\ logouts = 0

(***************************************************************************)
(* startImport: the code between two suspension points, as operators from  *)
(* the invocation's record to its next record                              *)
(***************************************************************************)

\* an absent (undefined) text field of a result record
NoText == <<>>

\* group.allFiles.map(f => f.split('/').pop() || f)
FileNames(files) == [k \in 1..Len(files) |-> PopOr(files[k])]

\* a call handed to invoke(); done = outcomes recorded when it was issued,
\* reply = what the answer carried besides success or failure
Call(bt, op, arg) ==
    [op |-> op, group |-> bt.i, arg |-> arg, done |-> Len(bt.results), ret |-> "pending",
     reply |-> "none", list |-> "none"]

\* the pending call, the last one issued, has answered: await gives a value or throws
Returned(bt, ret) == [bt EXCEPT !.calls[Len(bt.calls)].ret = ret]

\* the pending call has answered with a value the code reads
Replied(bt, reply) == [Returned(bt, "ok") EXCEPT !.calls[Len(bt.calls)].reply = reply]

\* selectedDirPath?.includes("/media/") || selectedDirPath?.includes("/mnt/") ? "sd_card" : "archive"
ImportedFrom(dirPath) ==
    IF dirPath # NullPath /\ (Includes(dirPath, Str_media) \/ Includes(dirPath, Str_mnt))
    THEN "sd_card" ELSE "archive"

\* Summary counting every outcome without success as failed
Summary_FailCountsSkipped(bt) ==
    LET results == bt.results
        Count(P(_)) == Cardinality({k \in 1..Len(results) : P(results[k])})
        IsNew(r)       == r.success /\ ~r.isDuplicate /\ ~r.isSkipped
        IsDuplicate(r) == r.success /\ r.isDuplicate
        IsSkipped(r)   == r.isSkipped
        IsFail(r)      == ~r.success
        RECURSIVE Sum(_)
        Sum(k) == IF k = 0 THEN 0 ELSE results[k].companionCount + Sum(k - 1)
    IN  [successCount    |-> Count(IsNew),
         duplicateCount  |-> Count(IsDuplicate),
         skippedCount    |-> Count(IsSkipped),
         failCount       |-> Count(IsFail),
         totalCompanions |-> Sum(Len(results)),
         groups          |-> Len(bt.companionGroups),
         files           |-> Len(selectedFiles)]

\* Step 4: the counts shown after the loop
Summary(bt) ==
    LET results == bt.results
        Count(P(_)) == Cardinality({k \in 1..Len(results) : P(results[k])})
        IsNew(r)       == r.success /\ ~r.isDuplicate /\ ~r.isSkipped
        IsDuplicate(r) == r.success /\ r.isDuplicate
        IsSkipped(r)   == r.isSkipped
        IsFail(r)      == ~r.success /\ ~r.isSkipped
        RECURSIVE Sum(_)
        Sum(k) == IF k = 0 THEN 0 ELSE results[k].companionCount + Sum(k - 1)
    IN  [successCount    |-> Count(IsNew),
         duplicateCount  |-> Count(IsDuplicate),
         skippedCount    |-> Count(IsSkipped),
         failCount       |-> Count(IsFail),
         totalCompanions |-> Sum(Len(results)),
         groups          |-> Len(bt.companionGroups),
         files           |-> Len(selectedFiles)]

\* LoopHead leaving the loop one group early (i < length - 1)
LoopHead_EndsEarly(bt, i) ==
    IF i >= Len(bt.companionGroups)
    THEN [bt EXCEPT !.pc = "done", !.i = i, !.c = 0, !.summary = Summary(bt)]
    ELSE LET at == [bt EXCEPT !.i = i, !.c = 0]
         IN  [at EXCEPT !.pc = "process_image_file",
                        !.calls = Append(@, Call(at, "process_image_file",
                                                 bt.companionGroups[i].masterFile))]

\* for (let i ...): the head of the loop for group i -- the extractor is
\* called for its master -- or, past the last group, the summary
LoopHead(bt, i) ==
    IF i > Len(bt.companionGroups)
    THEN [bt EXCEPT !.pc = "done", !.i = i, !.c = 0, !.summary = Summary(bt)]
    ELSE LET at == [bt EXCEPT !.i = i, !.c = 0]
         IN  [at EXCEPT !.pc = "process_image_file",
                        !.calls = Append(@, Call(at, "process_image_file",
                                                 bt.companionGroups[i].masterFile))]

\* Record giving up the batch after a group that did not succeed
Record_StopOnFailure(bt, result) ==
    LoopHead([bt EXCEPT !.results = Append(@, result)],
             IF result.success THEN bt.i + 1 ELSE Len(bt.companionGroups) + 1)

\* Record starting the next group before it pushes the outcome
Record_PushAfterNext(bt, result) ==
    [LoopHead(bt, bt.i + 1) EXCEPT !.results = Append(@, result)]

\* Record throwing away the outcomes of the earlier groups when a group fails
Record_DropsEarlier(bt, result) ==
    LoopHead([bt EXCEPT !.results = IF result.success THEN Append(@, result)
                                    ELSE <<result>>], bt.i + 1)

\* results.push(...) of one outcome, then the next iteration
Record(bt, result) ==
    LoopHead([bt EXCEPT !.results = Append(@, result)], bt.i + 1)

ResultSkipped(group, coreError) ==
    [file |-> PopOr(group.masterFile), success |-> FALSE, isSkipped |-> TRUE,
     isDuplicate |-> FALSE, hothash |-> Null, error |-> NoText,
     skipReason |-> <<"Cannot process file: ", coreError>>,
     companionCount |-> Len(group.companionFiles),
     allFiles |-> FileNames(group.allFiles)]

ResultFailed(group, error) ==
    [file |-> PopOr(group.masterFile), success |-> FALSE, isSkipped |-> FALSE,
     isDuplicate |-> FALSE, hothash |-> Null, error |-> error,
     skipReason |-> NoText,
     companionCount |-> Len(group.companionFiles),
     allFiles |-> FileNames(group.allFiles)]

\* ResultUploaded leaving out the hash of the response
ResultUploaded_NoHash(group, uploadResult) ==
    [file |-> PopOr(group.masterFile), success |-> TRUE, isSkipped |-> FALSE,
     isDuplicate |-> uploadResult.is_duplicate, hothash |-> Null,
     error |-> NoText, skipReason |-> NoText,
     companionCount |-> Len(group.companionFiles),
     allFiles |-> FileNames(group.allFiles)]

\* ResultUploaded leaving out the duplicate flag of the response
ResultUploaded_DropsFlag(group, uploadResult) ==
    [file |-> PopOr(group.masterFile), success |-> TRUE, isSkipped |-> FALSE,
     isDuplicate |-> FALSE, hothash |-> uploadResult.hothash,
     error |-> NoText, skipReason |-> NoText,
     companionCount |-> Len(group.companionFiles),
     allFiles |-> FileNames(group.allFiles)]

ResultUploaded(group, uploadResult) ==
    [file |-> PopOr(group.masterFile), success |-> TRUE, isSkipped |-> FALSE,
     isDuplicate |-> uploadResult.is_duplicate, hothash |-> uploadResult.hothash,
     error |-> NoText, skipReason |-> NoText,
     companionCount |-> Len(group.companionFiles),
     allFiles |-> FileNames(group.allFiles)]

\* localStorageInfo / companionLocalStorageInfo before its storage_path is known
StorageInfo(bt, path, group) ==
    [import_mode     |-> IF bt.isCopyMode THEN "copy" ELSE "register",
     source_path     |-> path,
     storage_path    |-> Empty,
     imported_from   |-> ImportedFrom(selectedDirPath),
     companion_files |-> FileNames(group.allFiles)]

\* Copies looking at the destination only, not at the chosen mode
Copies_DestinationOnly(bt) == bt.destinationPath # Empty

\* isCopyMode && destinationPath
Copies(bt) == bt.isCopyMode /\ bt.destinationPath # Empty

\* CompanionLoop taking the channel from the selection at the time of the upload
CompanionLoop_ReadsSelection(bt, c) ==
    LET group == bt.companionGroups[bt.i]
        at    == [bt EXCEPT !.c = c]
    IN  IF c > Len(group.companionFiles)
        THEN LET schema == [bt.photoCreateSchema EXCEPT !.input_channel_id = selectedInputChannelId]
             IN  [at EXCEPT !.pc = "upload_photo_create_schema",
                            !.photoCreateSchema = schema,
                            !.calls = Append(@, Call(at, "upload_photo_create_schema",
                                [photoCreateSchema |-> schema,
                                 inputChannelId    |-> selectedInputChannelId,
                                 authToken         |-> authToken]))]
        ELSE LET companionPath == group.companionFiles[c]
                 info == StorageInfo(bt, companionPath, group)
             IN  IF Copies(bt)
                 THEN [at EXCEPT !.pc = "copy_companion",
                                 !.localStorageInfo = info,
                                 !.calls = Append(@, Call(at, "copy_file_to_storage", companionPath))]
                 ELSE [at EXCEPT !.pc = "get_file_size",
                                 !.localStorageInfo = [info EXCEPT !.storage_path = companionPath],
                                 !.calls = Append(@, Call(at, "get_file_size", companionPath))]

\* Step 3e/3f: the companion loop at companion c -- its copy or its file-size
\* call -- or, past the last companion, the upload of the whole schema
CompanionLoop(bt, c) ==
    LET group == bt.companionGroups[bt.i]
        at    == [bt EXCEPT !.c = c]
    IN  IF c > Len(group.companionFiles)
        THEN LET schema == [bt.photoCreateSchema EXCEPT !.input_channel_id = bt.inputChannelId]
             IN  [at EXCEPT !.pc = "upload_photo_create_schema",
                            !.photoCreateSchema = schema,
                            !.calls = Append(@, Call(at, "upload_photo_create_schema",
                                [photoCreateSchema |-> schema,
                                 inputChannelId    |-> bt.inputChannelId,
                                 authToken         |-> authToken]))]
        ELSE LET companionPath == group.companionFiles[c]
                 info == StorageInfo(bt, companionPath, group)
             IN  IF Copies(bt)
                 THEN [at EXCEPT !.pc = "copy_companion",
                                 !.localStorageInfo = info,
                                 !.calls = Append(@, Call(at, "copy_file_to_storage", companionPath))]
                 ELSE [at EXCEPT !.pc = "get_file_size",
                                 !.localStorageInfo = [info EXCEPT !.storage_path = companionPath],
                                 !.calls = Append(@, Call(at, "get_file_size", companionPath))]

\* Step 3d: the master's storage record goes into the first entry of
\* image_file_list, when there is one; then the companions
EnrichMaster(bt, info) ==
    LET list == bt.photoCreateSchema.image_file_list
        enriched == IF bt.photoCreateSchema.image_file_list_defined /\ Len(list) > 0
                    THEN [list EXCEPT ![1] = [@ EXCEPT
                              !.local_storage_info = info,
                              !.imported_info = [original_selection |-> selectedDirPath]]]
                    ELSE list
    IN  CompanionLoop([bt EXCEPT !.photoCreateSchema.image_file_list = enriched,
                                 !.localStorageInfo = info], 1)

\* PlaceMaster with one descriptor for the whole batch: the file records of
\* the group are added to those of the groups before
PlaceMaster_SharedSchema(bt, schema) ==
    LET group == bt.companionGroups[bt.i]
        info  == StorageInfo(bt, group.masterFile, group)
        got   == [bt EXCEPT !.photoCreateSchema =
                     [schema EXCEPT !.image_file_list =
                         @ \o bt.photoCreateSchema.image_file_list]]
    IN  IF Copies(bt)
        THEN [got EXCEPT !.pc = "copy_master",
                         !.localStorageInfo = info,
                         !.calls = Append(@, Call(got, "copy_file_to_storage", group.masterFile))]
        ELSE EnrichMaster(got, [info EXCEPT !.storage_path = group.masterFile])

\* Step 3b: after the extractor has answered, the master is copied or registered
PlaceMaster(bt, schema) ==
    LET group == bt.companionGroups[bt.i]
        info  == StorageInfo(bt, group.masterFile, group)
        got   == [bt EXCEPT !.photoCreateSchema = schema]
    IN  IF Copies(bt)
        THEN [got EXCEPT !.pc = "copy_master",
                         !.localStorageInfo = info,
                         !.calls = Append(@, Call(got, "copy_file_to_storage", group.masterFile))]
        ELSE EnrichMaster(got, [info EXCEPT !.storage_path = group.masterFile])

\* companionFileFormat
FileFormat(fileName) ==
    LET parts == Split(fileName, ".")
        ext   == ToLowerCase(parts[Len(parts)])
    IN  IF ext = Empty THEN <<"u", "n", "k", "n", "o", "w", "n">>
        ELSE IF ext \in {e_jpg, e_jpeg} THEN e_jpeg
        ELSE IF ext \in {e_cr2, e_nef, e_arw, e_dng, e_orf, e_rw2} THEN e_raw
        ELSE ext

\* PushCompanion putting the companion's record at the head of the list
PushCompanion_Unshift(bt, fileSize) ==
    LET group == bt.companionGroups[bt.i]
        companionFileName == PopOr(group.companionFiles[bt.c])
        format == FileFormat(companionFileName)
        entry  == [filename |-> companionFileName,
                   file_size |-> fileSize,
                   format |-> format,
                   is_raw |-> format = e_raw,
                   local_storage_info |-> bt.localStorageInfo,
                   imported_info |-> [original_selection |-> selectedDirPath]]
    IN  IF bt.photoCreateSchema.image_file_list_defined
        THEN CompanionLoop([bt EXCEPT !.photoCreateSchema.image_file_list = <<entry>> \o @],
                           bt.c + 1)
        ELSE Record(bt, ResultFailed(group, <<"TypeError: Cannot read properties of undefined">>))

\* photoCreateSchema.image_file_list.push({...}) for companion c, then the
\* next companion; push on a list that is undefined throws a TypeError, which
\* reaches the catch of the group
PushCompanion(bt, fileSize) ==
    LET group == bt.companionGroups[bt.i]
        companionFileName == PopOr(group.companionFiles[bt.c])
        format == FileFormat(companionFileName)
        entry  == [filename |-> companionFileName,
                   file_size |-> fileSize,
                   format |-> format,
                   is_raw |-> format = e_raw,
                   local_storage_info |-> bt.localStorageInfo,
                   imported_info |-> [original_selection |-> selectedDirPath]]
    IN  IF bt.photoCreateSchema.image_file_list_defined
        THEN CompanionLoop([bt EXCEPT !.photoCreateSchema.image_file_list = Append(@, entry)],
                           bt.c + 1)
        ELSE Record(bt, ResultFailed(group, <<"TypeError: Cannot read properties of undefined">>))

(***************************************************************************)
(* What the external services answer                                       *)
(***************************************************************************)

Hashes == {"h1"}

\* image_file_list?: ImageFileSchema[] of the schema process_image_file
\* returns: a list holding the master's entry, an empty list, or no list
CoreLists == {"master", "empty", "absent"}

\* the answer taken where the scans and the user's events are varied
SmallCore == {"master"}

\* process_image_file: the schema for the master, with its image_file_list
CoreSchema(masterFilePath, hothash, list) ==
    [hothash |-> hothash,
     image_file_list |->
        IF list = "master"
        THEN << [filename |-> PopOr(masterFilePath),
                 file_size |-> 1,
                 format |-> FileFormat(PopOr(masterFilePath)),
                 is_raw |-> FileFormat(PopOr(masterFilePath)) = e_raw,
                 local_storage_info |-> [import_mode |-> Null],
                 imported_info |-> [original_selection |-> NullPath]] >>
        ELSE <<>>,
     image_file_list_defined |-> list # "absent",
     input_channel_id |-> NullId]

\* copy_file_to_storage with preserveStructure false: the flat destination
CopiedPath(sourcePath, destinationDir) == File(destinationDir, PopOr(sourcePath))

(***************************************************************************)
(* Actions of startImport                                                  *)
(***************************************************************************)

\* ProgressText counting the groups from zero, as the loop variable does
ProgressText_ZeroBased(bt) ==
    [group |-> bt.i - 1, of |-> Len(bt.companionGroups),
     file |-> PopOr(bt.companionGroups[bt.i].masterFile)]

\* "Update progress": `Behandler gruppe ${i + 1} av ${companionGroups.length}:
\* ${masterFileName}`, the fill being (i + 1) / length; bt.i counts from one
ProgressText(bt) ==
    [group |-> bt.i, of |-> Len(bt.companionGroups),
     file |-> PopOr(bt.companionGroups[bt.i].masterFile)]

\* the progress display after a piece of startImport has run: a piece that
\* ends at the extractor call has passed the head of the loop, which writes it
Shown(bt) == IF bt.pc = "process_image_file" THEN ProgressText(bt) ELSE progressText

\* Resume without the finally block
Resume_NoFinally(b, bt) ==
    /\ batches' = [batches EXCEPT ![b] = bt]
    /\ progressText' = Shown(bt)
    /\ startDisabled' = startDisabled
    /\ status' = IF bt.pc = "done" THEN "Import fullfort" ELSE status
    /\ UNCHANGED <<globals, events, grouper, session>>

\* an invocation goes on to its next suspension point, or to its end where
\* the finally block enables the start button
Resume(b, bt) ==
    /\ batches' = [batches EXCEPT ![b] = bt]
    /\ progressText' = Shown(bt)
    /\ startDisabled' = IF bt.pc = "done" THEN FALSE ELSE startDisabled
    /\ status' = IF bt.pc = "done" THEN "Import fullfort" ELSE status
    /\ UNCHANGED <<globals, events, grouper, session>>

\* StartImport without the check of the selected channel
StartImport_NoChannelCheck(b) ==
    /\ ~startDisabled
    /\ ~InFlight(b)
    /\ \A a \in Slots : a < b => InFlight(a)
    /\ IF selectedFiles = <<>>
       THEN UNCHANGED <<batches, progressText, startDisabled, status, events>>
       ELSE IF authToken = Null
       THEN status' = "Feil: Du ma vaere innlogget"
            /\ UNCHANGED <<batches, progressText, startDisabled, events>>
       ELSE IF copyChecked /\ destinationPath = Empty
       THEN status' = "Feil: Du ma velge destinasjonskatalog for Copy-modus"
            /\ startDisabled' = FALSE
            /\ UNCHANGED <<batches, progressText, events>>
       ELSE LET fresh == [IdleBatch EXCEPT
                             !.isCopyMode = copyChecked,
                             !.destinationPath = destinationPath,
                             !.inputChannelId = selectedInputChannelId,
                             !.companionGroups = groupCompanionFiles(selectedFiles)]
                bt == LoopHead(fresh, 1)
            IN  /\ UserEvent
                /\ batches' = [batches EXCEPT ![b] = bt]
                /\ progressText' = Shown(bt)
                /\ startDisabled' = (bt.pc # "done")
                /\ status' = IF bt.pc = "done" THEN "Import fullfort"
                              ELSE "Bruker input channel ID"
    /\ UNCHANGED <<globals, grouper, session>>

\* a click on #start-import: the preconditions, then the first group
StartImport(b) ==
    /\ ~startDisabled
    /\ ~InFlight(b)
    /\ \A a \in Slots : a < b => InFlight(a)
    /\ IF selectedFiles = <<>>
       THEN UNCHANGED <<batches, progressText, startDisabled, status, events>>
       ELSE IF authToken = Null
       THEN status' = "Feil: Du ma vaere innlogget"
            /\ UNCHANGED <<batches, progressText, startDisabled, events>>
       ELSE IF selectedInputChannelId = NullId
       THEN status' = "Feil: Du ma velge eller opprette en input channel"
            /\ UNCHANGED <<batches, progressText, startDisabled, events>>
       ELSE IF copyChecked /\ destinationPath = Empty
       THEN status' = "Feil: Du ma velge destinasjonskatalog for Copy-modus"
            /\ startDisabled' = FALSE
            /\ UNCHANGED <<batches, progressText, events>>
       ELSE LET fresh == [IdleBatch EXCEPT
                             !.isCopyMode = copyChecked,
                             !.destinationPath = destinationPath,
                             !.inputChannelId = selectedInputChannelId,
                             !.companionGroups = groupCompanionFiles(selectedFiles)]
                bt == LoopHead(fresh, 1)
            IN  /\ UserEvent
                /\ batches' = [batches EXCEPT ![b] = bt]
                /\ progressText' = Shown(bt)
                /\ startDisabled' = (bt.pc # "done")
                /\ status' = IF bt.pc = "done" THEN "Import fullfort"
                              ELSE "Bruker input channel ID"
    /\ UNCHANGED <<globals, grouper, session>>

\* process_image_file has answered with a schema
ExtractOk(b, hothash, list) ==
    LET at == Replied(batches[b], hothash)
        bt == [at EXCEPT !.calls[Len(at.calls)].list = list]
    IN  /\ bt.pc = "process_image_file"
        /\ Resume(b, PlaceMaster(bt, CoreSchema(bt.companionGroups[bt.i].masterFile,
                                                hothash, list)))

\* ExtractFails going to the next group without pushing an outcome
ExtractFails_NoRecord(b) ==
    LET bt == Returned(batches[b], "error")
    IN  /\ bt.pc = "process_image_file"
        /\ Resume(b, LoopHead(bt, bt.i + 1))

\* ExtractFails letting the error reach the catch of the group
ExtractFails_AsFailed(b) ==
    LET bt == Returned(batches[b], "error")
    IN  /\ bt.pc = "process_image_file"
        /\ Resume(b, Record(bt, ResultFailed(bt.companionGroups[bt.i], <<"core error">>)))

ExtractFails(b) ==
    LET bt == Returned(batches[b], "error")
    IN  /\ bt.pc = "process_image_file"
        /\ Resume(b, Record(bt, ResultSkipped(bt.companionGroups[bt.i], "core error")))

CopyMasterOk(b) ==
    LET bt == Returned(batches[b], "ok")
        finalPath == CopiedPath(bt.companionGroups[bt.i].masterFile, bt.destinationPath)
    IN  /\ bt.pc = "copy_master"
        /\ Resume(b, EnrichMaster(bt, [bt.localStorageInfo EXCEPT !.storage_path = finalPath]))

\* CopyMasterFails keeping the original path, as the companion loop does
CopyMasterFails_Tolerated(b) ==
    LET bt == Returned(batches[b], "error")
    IN  /\ bt.pc = "copy_master"
        /\ Resume(b, EnrichMaster(bt, [bt.localStorageInfo EXCEPT
                                          !.storage_path = bt.companionGroups[bt.i].masterFile]))

\* the master's copy has failed: throw new Error("Kunne ikke kopiere fil: ...")
\* reaches the catch of the group
CopyMasterFails(b) ==
    LET bt == Returned(batches[b], "error")
    IN  /\ bt.pc = "copy_master"
        /\ Resume(b, Record(bt, ResultFailed(bt.companionGroups[bt.i],
                                <<"Error: Kunne ikke kopiere fil: ", "copy error">>)))

\* the companion's copy has answered: get_file_size is asked for companionFinalPath
CopyCompanionReturns(b, ok) ==
    LET bt == Returned(batches[b], IF ok THEN "ok" ELSE "error")
        companionPath == bt.companionGroups[bt.i].companionFiles[bt.c]
        companionFinalPath == IF ok THEN CopiedPath(companionPath, bt.destinationPath)
                              ELSE companionPath
    IN  /\ bt.pc = "copy_companion"
        /\ Resume(b, [bt EXCEPT !.pc = "get_file_size",
                                !.localStorageInfo.storage_path = companionFinalPath,
                                !.calls = Append(@, Call(bt, "get_file_size", companionFinalPath))])

CopyCompanionOk(b) == CopyCompanionReturns(b, TRUE)

\* CopyCompanionFails treating the companion's copy like the master's
CopyCompanionFails_Critical(b) ==
    LET bt == Returned(batches[b], "error")
    IN  /\ bt.pc = "copy_companion"
        /\ Resume(b, Record(bt, ResultFailed(bt.companionGroups[bt.i],
                                <<"Error: Kunne ikke kopiere fil: ", "copy error">>)))

CopyCompanionFails(b) == CopyCompanionReturns(b, FALSE)

\* SizeOk going to the upload after the first companion's file size
SizeOk_SkipsRest(b) ==
    LET bt == Returned(batches[b], "ok")
    IN  /\ bt.pc = "get_file_size"
        /\ Resume(b, CompanionLoop(bt, Len(bt.companionGroups[bt.i].companionFiles) + 1))

\* get_file_size has answered
SizeOk(b) ==
    LET bt == Returned(batches[b], "ok")
    IN  /\ bt.pc = "get_file_size"
        /\ Resume(b, PushCompanion(bt, 1))

\* SizeFails going on with a file size of 0, as a failed companion copy goes on
SizeFails_Tolerated(b) ==
    LET bt == Returned(batches[b], "error")
    IN  /\ bt.pc = "get_file_size"
        /\ Resume(b, PushCompanion(bt, 0))

\* get_file_size has thrown: the catch of the group records it as failed
SizeFails(b) ==
    LET bt == Returned(batches[b], "error")
    IN  /\ bt.pc = "get_file_size"
        /\ Resume(b, Record(bt, ResultFailed(bt.companionGroups[bt.i], <<"size error">>)))

\* upload_photo_create_schema has answered: uploadResult.is_duplicate is set or not
UploadOk(b, isDuplicate) ==
    LET bt == Replied(batches[b], IF isDuplicate THEN "duplicate" ELSE "new")
    IN  /\ bt.pc = "upload_photo_create_schema"
        /\ Resume(b, Record(bt, ResultUploaded(bt.companionGroups[bt.i],
                                [hothash |-> bt.photoCreateSchema.hothash,
                                 is_duplicate |-> isDuplicate])))

\* UploadFails reporting the failure with the hash the extractor computed
UploadFails_KeepsHash(b) ==
    LET bt == Returned(batches[b], "error")
    IN  /\ bt.pc = "upload_photo_create_schema"
        /\ Resume(b, Record(bt, [ResultFailed(bt.companionGroups[bt.i], <<"upload error">>)
                                    EXCEPT !.hothash = bt.photoCreateSchema.hothash]))

\* upload_photo_create_schema has thrown (transport error or a response that
\* is not ok): the catch of the group
UploadFails(b) ==
    LET bt == Returned(batches[b], "error")
    IN  /\ bt.pc = "upload_photo_create_schema"
        /\ Resume(b, Record(bt, ResultFailed(bt.companionGroups[bt.i], <<"upload error">>)))

(***************************************************************************)
(* The other handlers                                                      *)
(***************************************************************************)

\* handleLogin, once the login call has succeeded
LoginOk(token) ==
    /\ UserEvent
    /\ authToken' = token
    /\ currentUser' = User
    /\ UNCHANGED <<selectedFiles, selectedDirPath, selectedInputChannelId, startDisabled, status,
                   copyChecked, destinationPath, scans, batches, progressText, grouper, logouts>>

\* handleLogout up to its first await: with a token the backend's logout is
\* called, without one the credentials are cleared at once
Logout ==
    /\ UserEvent
    /\ IF authToken # Null
       THEN /\ logouts < MaxLogouts
            /\ logouts' = logouts + 1
            /\ UNCHANGED <<authToken, currentUser>>
       ELSE /\ authToken' = Null
            /\ currentUser' = Null
            /\ UNCHANGED logouts
    /\ UNCHANGED <<selectedFiles, selectedDirPath, selectedInputChannelId, startDisabled, status,
                   copyChecked, destinationPath, scans, batches, progressText, grouper>>

\* LogoutReturns keeping the credentials when the backend's logout has failed
LogoutReturns_KeepsOnError(failed) ==
    /\ logouts > 0
    /\ logouts' = logouts - 1
    /\ authToken' = IF failed THEN authToken ELSE Null
    /\ currentUser' = IF failed THEN currentUser ELSE Null
    /\ UNCHANGED <<selectedFiles, selectedDirPath, selectedInputChannelId, startDisabled, status,
                   copyChecked, destinationPath, scans, batches, progressText, events, grouper>>

\* handleLogout after the logout call has answered or failed: the catch only
\* logs, and the credentials are cleared
LogoutReturns(failed) ==
    /\ logouts > 0
    /\ logouts' = logouts - 1
    /\ authToken' = Null
    /\ currentUser' = Null
    /\ UNCHANGED <<selectedFiles, selectedDirPath, selectedInputChannelId, startDisabled, status,
                   copyChecked, destinationPath, scans, batches, progressText, events, grouper>>

\* selectRegisterSourceDirectory / selectCopySourceDirectory, once the dialog
\* has answered, up to the scan_directory call of scanDirectory
SelectSourceDirectory(selected) ==
    /\ UserEvent
    /\ Len(scans) < MaxScans
    /\ selectedDirPath' = selected
    /\ scans' = Append(scans, selected)
    /\ status' = "Skanner katalog..."
    /\ UNCHANGED <<authToken, selectedFiles, selectedInputChannelId, startDisabled,
                   copyChecked, destinationPath, batches, progressText, grouper, session>>

\* scanDirectory after scan_directory has answered
ScanOk(k, files) ==
    /\ k \in 1..Len(scans)
    /\ selectedFiles' = files
    /\ startDisabled' = (Len(files) = 0)
    /\ status' = IF Len(files) > 0 THEN "Funnet filer" ELSE "Ingen bildefiler funnet"
    /\ scans' = RemoveAt(scans, k)
    /\ UNCHANGED <<authToken, selectedDirPath, selectedInputChannelId,
                   copyChecked, destinationPath, batches, progressText, events, grouper, session>>

\* scanDirectory when scan_directory has failed
ScanFails(k) ==
    /\ k \in 1..Len(scans)
    /\ scans' = RemoveAt(scans, k)
    /\ status' = "Feil ved skanning"
    /\ UNCHANGED <<authToken, selectedFiles, selectedDirPath, selectedInputChannelId,
                   startDisabled, copyChecked, destinationPath, batches, progressText, events, grouper, session>>

\* selectExistingChannel: the empty option gives null
SelectExistingChannel(id) ==
    /\ UserEvent
    /\ selectedInputChannelId' = id
    /\ UNCHANGED <<authToken, selectedFiles, selectedDirPath, startDisabled, status,
                   copyChecked, destinationPath, scans, batches, progressText, grouper, session>>

\* the user picks the other import-mode radio button
ImportModeChange ==
    /\ UserEvent
    /\ copyChecked' = ~copyChecked
    /\ UNCHANGED <<authToken, selectedFiles, selectedDirPath, selectedInputChannelId,
                   startDisabled, status, destinationPath, scans, batches, progressText, grouper, session>>

\* selectDestinationDirectory, once the dialog has answered
SelectDestinationDirectory(selected) ==
    /\ UserEvent
    /\ destinationPath' = selected
    /\ UNCHANGED <<authToken, selectedFiles, selectedDirPath, selectedInputChannelId,
                   startDisabled, status, copyChecked, scans, batches, progressText, grouper, session>>

(***************************************************************************)
(* Specifications                                                          *)
(***************************************************************************)

\* the steps of the suspended startImport invocations
BatchStep(lists) ==
    \/ \E b \in Slots, h \in Hashes, l \in lists : ExtractOk(b, h, l)
    \/ \E b \in Slots : ExtractFails(b)
    \/ \E b \in Slots : CopyMasterOk(b)
    \/ \E b \in Slots : CopyMasterFails(b)
    \/ \E b \in Slots : CopyCompanionOk(b)
    \/ \E b \in Slots : CopyCompanionFails(b)
    \/ \E b \in Slots : SizeOk(b)
    \/ \E b \in Slots : SizeFails(b)
    \/ \E b \in Slots, d \in BOOLEAN : UploadOk(b, d)
    \/ \E b \in Slots : UploadFails(b)

\* Every interleaving of the user's events on the import screen with the
\* suspension points of the running invocations; a scan finds one group with
\* a companion.  Logging out is interleaved in SpecSession.
Next ==
    \/ \E b \in Slots : StartImport(b)
    \/ BatchStep(SmallCore)
    \/ \E t \in Tokens : LoginOk(t)
    \/ \E d \in Dirs : SelectSourceDirectory(d)
    \/ \E k \in 1..Len(scans) : \E files \in SmallScans(scans[k]) : ScanOk(k, files)
    \/ \E k \in 1..Len(scans) : ScanFails(k)
    \/ \E id \in ChannelIds \union {NullId} : SelectExistingChannel(id)
    \/ ImportModeChange
    \/ SelectDestinationDirectory(Dest)

Spec == Init /\ [][Next]_vars

\* A user who sets everything up and then only starts batches; a scan finds
\* nothing, three groups, or one group next to a file without extension.
NextBatch ==
    \/ \E b \in Slots : StartImport(b)
    \/ BatchStep(SmallCore)
    \/ Fresh /\ \E t \in Tokens : LoginOk(t)
    \/ Fresh /\ \E d \in Dirs : SelectSourceDirectory(d)
    \/ Fresh /\ \E k \in 1..Len(scans) : \E files \in RichScans(scans[k]) : ScanOk(k, files)
    \/ Fresh /\ \E k \in 1..Len(scans) : ScanFails(k)
    \/ Fresh /\ \E id \in ChannelIds \union {NullId} : SelectExistingChannel(id)
    \/ Fresh /\ ImportModeChange
    \/ Fresh /\ SelectDestinationDirectory(Dest)

SpecBatch == Init /\ [][NextBatch]_vars

\* what scan_directory may answer for a directory: one group with two
\* companions, or two groups without companions
CoreScans(dir) ==
    { <<File(dir, n_a_cr2), File(dir, n_a_jpg), File(dir, n_a_nef)>>,
      <<File(dir, n_a_jpg), File(dir, n_b_nef)>> }

\* A user who sets everything up and then only starts batches, with every
\* answer of the extractor: a schema with the master's entry in its
\* image_file_list, with an empty list, or without a list.
NextCore ==
    \/ \E b \in Slots : StartImport(b)
    \/ BatchStep(CoreLists)
    \/ Fresh /\ \E t \in Tokens : LoginOk(t)
    \/ Fresh /\ \E d \in Dirs : SelectSourceDirectory(d)
    \/ Fresh /\ \E k \in 1..Len(scans) : \E files \in CoreScans(scans[k]) : ScanOk(k, files)
    \/ Fresh /\ \E k \in 1..Len(scans) : ScanFails(k)
    \/ Fresh /\ \E id \in ChannelIds \union {NullId} : SelectExistingChannel(id)
    \/ Fresh /\ ImportModeChange
    \/ Fresh /\ SelectDestinationDirectory(Dest)

SpecCore == Init /\ [][NextCore]_vars

\* A user who sets everything up, starts batches and goes on picking entries
\* of the channel select while they run.
NextChannel ==
    \/ \E b \in Slots : StartImport(b)
    \/ BatchStep(SmallCore)
    \/ Fresh /\ \E t \in Tokens : LoginOk(t)
    \/ Fresh /\ \E d \in Dirs : SelectSourceDirectory(d)
    \/ Fresh /\ \E k \in 1..Len(scans) : \E files \in SmallScans(scans[k]) : ScanOk(k, files)
    \/ Fresh /\ \E k \in 1..Len(scans) : ScanFails(k)
    \/ \E id \in ChannelIds \union {NullId} : SelectExistingChannel(id)
    \/ Fresh /\ ImportModeChange
    \/ Fresh /\ SelectDestinationDirectory(Dest)

SpecChannel == Init /\ [][NextChannel]_vars

\* A user who sets everything up, starts batches, and logs out and in again
\* at any time.
NextSession ==
    \/ \E b \in Slots : StartImport(b)
    \/ BatchStep(SmallCore)
    \/ \E t \in Tokens : LoginOk(t)
    \/ Logout
    \/ \E failed \in BOOLEAN : LogoutReturns(failed)
    \/ Fresh /\ \E d \in Dirs : SelectSourceDirectory(d)
    \/ Fresh /\ \E k \in 1..Len(scans) : \E files \in SmallScans(scans[k]) : ScanOk(k, files)
    \/ Fresh /\ \E k \in 1..Len(scans) : ScanFails(k)
    \/ Fresh /\ \E id \in ChannelIds \union {NullId} : SelectExistingChannel(id)
    \/ Fresh /\ ImportModeChange
    \/ Fresh /\ SelectDestinationDirectory(Dest)

SpecSession == Init /\ [][NextSession]_vars

\* the pending call of invocation b returns, with a result or with an error
Returns(b) ==
    \/ \E h \in Hashes, l \in CoreLists : ExtractOk(b, h, l)
    \/ ExtractFails(b)
    \/ CopyMasterOk(b)
    \/ CopyMasterFails(b)
    \/ CopyCompanionOk(b)
    \/ CopyCompanionFails(b)
    \/ SizeOk(b)
    \/ SizeFails(b)
    \/ \E d \in BOOLEAN : UploadOk(b, d)
    \/ UploadFails(b)

\* SpecCore with external services that answer every call: an awaited
\* invoke(...) settles, and the event loop then runs the continuation of the
\* invocation that awaits it.  This is weak fairness of Returns(b), written
\* out with InFlight(b) for ENABLED <<Returns(b)>>_vars: an invocation is in
\* flight exactly when it awaits a call, and each return action asks for no
\* more than the suspension point of its call.
SpecLive == SpecCore /\ \A b \in Slots : []<>~InFlight(b) \/ []<><<Returns(b)>>_vars

\* the two slots that hold the runs of a pair
Pair == {1, 2}

\* what the channel selection offers before a pair of runs: no channel or one
PairChannels == {NullId, 1}

\* a scan may answer during the set-up, or while the first run has the start
\* button disabled and the second run has not started
ScanMayAnswer ==
    \/ Fresh
    \/ startDisabled /\ \E b \in Slots \cap Pair : batches[b].pc = "idle"

\* Two runs of a batch side by side: the user sets everything up and starts a
\* batch; a scan that answers while it runs enables the start button again,
\* and a second click starts a second run, on the same selection when the
\* scan found the same files.  Nothing else happens while the runs go on, so
\* they differ in the answers of the external services only.
NextPair ==
    \/ \E b \in Slots \cap Pair : batches[b].pc = "idle" /\ StartImport(b)
    \/ BatchStep(SmallCore)
    \/ Fresh /\ \E t \in Tokens : LoginOk(t)
    \/ Fresh /\ \E d \in Dirs : SelectSourceDirectory(d)
    \/ ScanMayAnswer /\ \E k \in 1..Len(scans) : \E files \in PairScans(scans[k]) : ScanOk(k, files)
    \/ Fresh /\ \E k \in 1..Len(scans) : ScanFails(k)
    \/ Fresh /\ \E id \in PairChannels : SelectExistingChannel(id)
    \/ Fresh /\ ImportModeChange
    \/ Fresh /\ SelectDestinationDirectory(Dest)

SpecPair == Init /\ [][NextPair]_vars

(***************************************************************************)
(* groupCompanionFiles on its own                                          *)
(***************************************************************************)

\* A path of the input universe, given by its parts: directory, file-name
\* stem, whether a '.' and an extension follow, the extension as written and
\* the extension in lower case.
Part(dir, stem, dot, ext, lext) ==
    [dir |-> dir, stem |-> stem, dot |-> dot, ext |-> ext, lext |-> lext,
     path |-> dir \o <<"/">> \o stem \o (IF dot THEN <<".">> \o ext ELSE <<>>)]

DirE  == <<"/", "e">>
DirDx == <<"/", "d", ".", "x">>
s_a   == <<"a">>
s_b   == <<"b">>
s_ab  == <<"a", ".", "b">>
e_JPG == <<"J", "P", "G">>
e_Cr2 == <<"C", "r", "2">>
e_txt == <<"t", "x", "t">>

GroupParts ==
    { Part(DirD, s_a, TRUE, e_jpg, e_jpg),
      Part(DirD, s_a, TRUE, e_JPG, e_jpg),
      Part(DirD, s_a, TRUE, e_cr2, e_cr2),
      Part(DirD, s_a, TRUE, e_nef, e_nef),
      Part(DirD, s_a, TRUE, e_heic, e_heic),
      Part(DirD, s_a, TRUE, e_png, e_png),
      Part(DirD, s_a, TRUE, e_txt, e_txt),
      Part(DirD, s_a, TRUE, <<>>, <<>>),
      Part(DirD, <<>>, TRUE, e_jpg, e_jpg),
      Part(DirE, s_a, TRUE, e_jpg, e_jpg),
      Part(DirE, s_a, TRUE, e_Cr2, e_cr2),
      Part(DirD, n_n, FALSE, <<>>, <<>>),
      Part(DirDx, n_n, FALSE, <<>>, <<>>),
      Part(DirD, s_ab, TRUE, e_jpg, e_jpg),
      Part(DirD, s_b, TRUE, e_jpeg, e_jpeg),
      Part(DirD, s_b, TRUE, e_arw, e_arw),
      Part(DirD, s_b, TRUE, e_dng, e_dng),
      Part(DirD, s_b, TRUE, e_orf, e_orf),
      Part(DirD, s_b, TRUE, e_rw2, e_rw2),
      Part(DirD, s_b, TRUE, e_raw, e_raw) }

GroupPaths == {x.path : x \in GroupParts}

\* the parts a path of the universe was built from
PartsOf(path) == CHOOSE x \in GroupParts : x.path = path

SeqsUpTo(S, n) == UNION {[1..m -> S] : m \in 0..n}

InitGroup ==
    /\ authToken = Null
    /\ selectedFiles = <<>>
    /\ selectedDirPath = NullPath
    /\ selectedInputChannelId = NullId
    /\ startDisabled = TRUE
    /\ status = "none"
    /\ copyChecked = FALSE
    /\ destinationPath = Empty
    /\ scans = <<>>
    /\ batches = [b \in Slots |-> IdleBatch]
    /\ progressText = NoProgress
    /\ events = 0
    /\ filePaths \in SeqsUpTo(GroupPaths, MaxFiles)
    /\ grouped = FALSE
    /\ companionGroups = <<>>
    /\ currentUser = Null
    /\ logouts = 0

\* the call groupCompanionFiles(filePaths) returns
GroupFiles ==
    /\ ~grouped
    /\ grouped' = TRUE
    /\ companionGroups' = groupCompanionFiles(filePaths)
    /\ UNCHANGED <<globals, startDisabled, status, batches, progressText, events, filePaths,
                   session>>

NextGroup == GroupFiles

SpecGroup == InitGroup /\ [][NextGroup]_vars

(***************************************************************************)
(* Properties of groupCompanionFiles (checked under SpecGroup)             *)
(***************************************************************************)

Range(f) == {f[k] : k \in DOMAIN f}

\* the groups whose allFiles hold a path
GroupsWith(path) ==
    {g \in 1..Len(companionGroups) : path \in Range(companionGroups[g].allFiles)}

\* the rank of an extension (in lower case) as the priority table is specified
RankOf(lext) ==
    CASE lext \in {e_jpg, e_jpeg} -> 1
      [] lext = e_heic -> 2
      [] lext = e_png -> 3
      [] lext \in {e_cr2, e_nef, e_arw, e_dng, e_orf, e_rw2, e_raw} -> 10
      [] OTHER -> 99

RankOfPath(path) == RankOf(PartsOf(path).lext)

\* C5: groupCompanionFiles partitions its input -- every input path whose file
\* name contains a '.' is in allFiles of exactly one group, every input path
\* whose file name has no '.' is in no group, and the groups hold input paths only.
C5_Partition ==
    grouped =>
        /\ \A p \in Range(filePaths) :
              Cardinality(GroupsWith(p)) = IF PartsOf(p).dot THEN 1 ELSE 0
        /\ \A g \in 1..Len(companionGroups) :
              Range(companionGroups[g].allFiles) \subseteq Range(filePaths)

\* a mixed input has been grouped: a file without '.', one in a dotted
\* directory, and files with extension
C5_Witness ==
    /\ grouped
    /\ Part(DirDx, n_n, FALSE, <<>>, <<>>).path \in Range(filePaths)
    /\ \E p \in Range(filePaths) : PartsOf(p).dot
    /\ Len(companionGroups) = 2

\* C6: in every group the master has the smallest extension rank of the
\* group's files (jpg/jpeg 1, heic 2, png 3, the RAW formats 10, others 99,
\* compared in lower case) and masterPriority is that rank.
C6_MasterHasSmallestRank ==
    grouped =>
        \A g \in 1..Len(companionGroups) :
            LET group == companionGroups[g]
            IN  /\ group.masterPriority = RankOfPath(group.masterFile)
                /\ \A f \in Range(group.allFiles) :
                      RankOfPath(group.masterFile) <= RankOfPath(f)

\* a cr2 listed before its JPG: the JPG is the master; a RAW file alone is its own master
C6_Witness ==
    /\ grouped
    /\ filePaths = << Part(DirD, s_a, TRUE, e_cr2, e_cr2).path,
                      Part(DirD, s_a, TRUE, e_JPG, e_jpg).path,
                      Part(DirD, s_b, TRUE, e_raw, e_raw).path >>
    /\ companionGroups[1].masterFile = Part(DirD, s_a, TRUE, e_JPG, e_jpg).path
    /\ companionGroups[2].masterFile = Part(DirD, s_b, TRUE, e_raw, e_raw).path

\* the positions in the input of the files of the group of position k
SameGroupAt(k) ==
    {m \in 1..Len(filePaths) :
        /\ PartsOf(filePaths[m]).dot
        /\ PartsOf(filePaths[m]).dir = PartsOf(filePaths[k]).dir
        /\ PartsOf(filePaths[m]).stem = PartsOf(filePaths[k]).stem}

\* C7: when several files of a group share the minimal rank, the master is
\* the one that occurs first in the input list.
C7_FirstOfMinimalRankIsMaster ==
    grouped =>
        \A k \in 1..Len(filePaths) :
            (/\ PartsOf(filePaths[k]).dot
             /\ \A m \in SameGroupAt(k) :
                   \/ RankOfPath(filePaths[k]) < RankOfPath(filePaths[m])
                   \/ RankOfPath(filePaths[k]) = RankOfPath(filePaths[m]) /\ k <= m)
            => \E g \in 1..Len(companionGroups) :
                   /\ companionGroups[g].masterFile = filePaths[k]
                   /\ filePaths[k] \in Range(companionGroups[g].allFiles)

\* a nef listed before a cr2 of the same stem: the nef is the master
C7_Witness ==
    /\ grouped
    /\ filePaths = << Part(DirD, s_a, TRUE, e_nef, e_nef).path,
                      Part(DirD, s_a, TRUE, e_cr2, e_cr2).path >>
    /\ Len(companionGroups) = 1
    /\ companionGroups[1].masterFile = Part(DirD, s_a, TRUE, e_nef, e_nef).path

\* C8: two input paths are in the same group if and only if they have the
\* same directory and the same file-name stem.
C8_SameGroupIffSameDirAndStem ==
    grouped =>
        \A p, q \in {x \in Range(filePaths) : PartsOf(x).dot} :
            (GroupsWith(p) \cap GroupsWith(q) # {})
            <=> (PartsOf(p).dir = PartsOf(q).dir /\ PartsOf(p).stem = PartsOf(q).stem)

\* a.jpg and a.cr2 in /d and a.Cr2 in /e: two groups, the /e file alone
C8_Witness ==
    /\ grouped
    /\ Range(filePaths) = { Part(DirD, s_a, TRUE, e_jpg, e_jpg).path,
                            Part(DirD, s_a, TRUE, e_cr2, e_cr2).path,
                            Part(DirE, s_a, TRUE, e_Cr2, e_cr2).path }
    /\ Len(companionGroups) = 2
    /\ \E g \in 1..2 : Len(companionGroups[g].allFiles) = 2

(***************************************************************************)
(* Properties of startImport                                               *)
(***************************************************************************)

\* the calls a batch has issued for group g with one of the operations ops
CallsFor(bt, g, ops) ==
    {n \in 1..Len(bt.calls) : bt.calls[n].group = g /\ bt.calls[n].op \in ops}

Skipped(r) == r.isSkipped /\ ~r.success
Failed(r)  == ~r.isSkipped /\ ~r.success

\* C1: a batch whose calls have all returned has recorded exactly one outcome
\* per group, the i-th record being the outcome of the i-th group; while it
\* runs, the groups before the current one have theirs.
C1_OneOutcomePerGroup ==
    \A b \in Slots :
        LET bt == batches[b]
        IN  /\ bt.pc = "done" => Len(bt.results) = Len(bt.companionGroups)
            /\ InFlight(b) => Len(bt.results) = bt.i - 1
            /\ \A k \in 1..Len(bt.results) :
                  /\ k <= Len(bt.companionGroups)
                  /\ bt.results[k].file = PopOr(bt.companionGroups[k].masterFile)
                  /\ bt.results[k].allFiles = FileNames(bt.companionGroups[k].allFiles)
                  /\ bt.results[k].companionCount = Len(bt.companionGroups[k].companionFiles)

\* a copy-mode batch of three groups has ended with a failed, a skipped and
\* an uploaded group
C1_Witness ==
    \E b \in Slots :
        LET bt == batches[b]
        IN  /\ bt.pc = "done"
            /\ bt.isCopyMode
            /\ Len(bt.companionGroups) = 3
            /\ Len(bt.results) = 3
            /\ Failed(bt.results[1])
            /\ Skipped(bt.results[2])
            /\ bt.results[3].success

\* C2: a failure in one group never aborts the batch -- once group k has
\* ended as skipped or failed, the extractor is called for the master of the
\* next group, and a finished batch has called it for the master of every group.
C2_LaterGroupsStillAttempted ==
    \A b \in Slots :
        LET bt == batches[b]
            Attempted(g) ==
                \E n \in CallsFor(bt, g, {"process_image_file"}) :
                    bt.calls[n].arg = bt.companionGroups[g].masterFile
        IN  /\ \A k \in 1..Len(bt.results) :
                  (Skipped(bt.results[k]) \/ Failed(bt.results[k])) /\ k < Len(bt.companionGroups)
                  => Attempted(k + 1)
            /\ bt.pc = "done" => \A g \in 1..Len(bt.companionGroups) : Attempted(g)

\* of three groups the first was uploaded, the second skipped, the third
\* failed at its upload: each later group was attempted
C2_Witness ==
    \E b \in Slots :
        LET bt == batches[b]
        IN  /\ bt.pc = "done"
            /\ Len(bt.results) = 3
            /\ bt.results[1].success
            /\ Skipped(bt.results[2])
            /\ Failed(bt.results[3])
            /\ CallsFor(bt, 3, {"upload_photo_create_schema"}) # {}

\* C3: at most one import batch is in flight at any time.
C3_AtMostOneBatchInFlight ==
    Cardinality({b \in Slots : InFlight(b)}) <= 1

UnmetPrecondition ==
    \/ authToken = Null
    \/ selectedInputChannelId = NullId
    \/ copyChecked /\ destinationPath = Empty

\* C4: a batch requested while a precondition is unmet (no auth token, no
\* channel, copy mode without destination) is refused -- the request issues no
\* call and records no outcome.
C4_RefusedWhenPreconditionUnmet ==
    [][ (UnmetPrecondition /\ \E b \in Slots : StartImport(b)) => batches' = batches ]_vars

\* a request with files and a token but no channel has just been refused
C4_Witness ==
    /\ status = "Feil: Du ma velge eller opprette en input channel"
    /\ selectedFiles # <<>>
    /\ authToken # Null
    /\ selectedInputChannelId = NullId
    /\ Fresh

\* C9: the groups of a batch are processed one after another -- every call
\* for group g is issued when exactly g - 1 outcomes are recorded, and only the
\* last call issued can be pending, so calls of two groups never pend together.
C9_GroupsStrictlySequential ==
    \A b \in Slots :
        LET bt == batches[b]
        IN  /\ \A n \in 1..Len(bt.calls) :
                  /\ bt.calls[n].done = bt.calls[n].group - 1
                  /\ n < Len(bt.calls) => bt.calls[n].ret # "pending"
                  /\ n < Len(bt.calls) => bt.calls[n].group <= bt.calls[n + 1].group
            /\ InFlight(b) => /\ bt.calls # <<>>
                              /\ bt.calls[Len(bt.calls)].ret = "pending"
                              /\ bt.calls[Len(bt.calls)].group = Len(bt.results) + 1

\* the extractor call of the third group is pending, the two groups before
\* have their outcomes
C9_Witness ==
    \E b \in Slots :
        LET bt == batches[b]
        IN  /\ bt.pc = "process_image_file"
            /\ bt.i = 3
            /\ Len(bt.results) = 2
            /\ CallsFor(bt, 1, {"get_file_size"}) # {}

\* C10: when the extractor fails for a group's master, the group's outcome is
\* SKIPPED with a reason, not FAILED, and no copy, file-size or upload call is
\* made for the group.
C10_ExtractorFailureSkipsGroup ==
    \A b \in Slots :
        LET bt == batches[b]
        IN  \A n \in 1..Len(bt.calls) :
                bt.calls[n].op = "process_image_file" /\ bt.calls[n].ret = "error"
                => LET g == bt.calls[n].group
                   IN  /\ Len(bt.results) >= g
                       /\ Skipped(bt.results[g])
                       /\ bt.results[g].skipReason # NoText
                       /\ bt.results[g].hothash = Null
                       /\ CallsFor(bt, g, {"copy_file_to_storage", "get_file_size",
                                           "upload_photo_create_schema"}) = {}

\* in copy mode the extractor has failed for the first group, which has a companion
C10_Witness ==
    \E b \in Slots :
        LET bt == batches[b]
        IN  /\ bt.isCopyMode
            /\ Len(bt.results) >= 1
            /\ Skipped(bt.results[1])
            /\ bt.results[1].companionCount = 1
            /\ bt.calls[1].ret = "error"

\* the calls of a batch for group g that copy the group's master file
MasterCopies(bt, g) ==
    {n \in CallsFor(bt, g, {"copy_file_to_storage"}) :
        bt.calls[n].arg = bt.companionGroups[g].masterFile}

\* C11: in copy mode, when the copy of a group's master file fails, the
\* group's outcome is FAILED with an error text, no companion of the group is
\* copied (the master's copy is the group's only copy call) and no upload is
\* made for the group.
C11_MasterCopyFailureFailsGroup ==
    \A b \in Slots :
        LET bt == batches[b]
        IN  \A g \in 1..Len(bt.companionGroups) :
                \A n \in MasterCopies(bt, g) :
                    bt.calls[n].ret = "error"
                    => /\ bt.isCopyMode
                       /\ Len(bt.results) >= g
                       /\ Failed(bt.results[g])
                       /\ bt.results[g].error # NoText
                       /\ bt.results[g].hothash = Null
                       /\ CallsFor(bt, g, {"copy_file_to_storage"}) = {n}
                       /\ CallsFor(bt, g, {"get_file_size", "upload_photo_create_schema"}) = {}

\* in copy mode the copy of the first group's master has failed, the group
\* has a companion, and the batch has gone on to the second group
C11_Witness ==
    \E b \in Slots :
        LET bt == batches[b]
        IN  /\ bt.isCopyMode
            /\ Len(bt.results) >= 1
            /\ bt.results[1].companionCount = 1
            /\ \E n \in MasterCopies(bt, 1) : bt.calls[n].ret = "error"
            /\ CallsFor(bt, 2, {"process_image_file"}) # {}

\* the calls of a batch for group g that copy a companion of the group
CompanionCopies(bt, g) == CallsFor(bt, g, {"copy_file_to_storage"}) \ MasterCopies(bt, g)

\* group g of the batch has its outcome, and it is the one the upload gave:
\* the group's one upload call has answered, success if and only if it
\* answered without error
ClassifiedByUpload(bt, g) ==
    /\ Len(bt.results) >= g
    /\ \E u \in CallsFor(bt, g, {"upload_photo_create_schema"}) :
          /\ CallsFor(bt, g, {"upload_photo_create_schema"}) = {u}
          /\ bt.calls[u].ret \in {"ok", "error"}
          /\ bt.results[g].success <=> bt.calls[u].ret = "ok"
          /\ ~bt.results[g].isSkipped

\* what the extractor answered for group g about image_file_list
ListOf(bt, g) ==
    LET n == CHOOSE n \in CallsFor(bt, g, {"process_image_file"}) : TRUE
    IN  bt.calls[n].list

\* the file record of companion c in the descriptor an upload call carries:
\* the companions' records are the last ones of the list
CompanionRecord(call, group, c) ==
    LET list == call.arg.photoCreateSchema.image_file_list
    IN  list[Len(list) - Len(group.companionFiles) + c]

C13_UploadFailureFailsGroupOnly ==
    \A b \in Slots :
        LET bt == batches[b]
        IN  \A g \in 1..Len(bt.companionGroups) :
                \A n \in CallsFor(bt, g, {"upload_photo_create_schema"}) :
                    bt.calls[n].ret = "error"
                    => /\ Len(bt.results) >= g
                       /\ Failed(bt.results[g])
                       /\ bt.results[g].error # NoText
                       /\ bt.results[g].hothash = Null
                       /\ ~bt.results[g].isDuplicate
                       /\ IF g < Len(bt.companionGroups)
                          THEN \E m \in CallsFor(bt, g + 1, {"process_image_file"}) :
                                  /\ m = n + 1
                                  /\ bt.calls[m].arg = bt.companionGroups[g + 1].masterFile
                          ELSE bt.pc = "done" /\ n = Len(bt.calls)

\* the upload of the first of three groups has failed and the second group
\* has been uploaded
C13_Witness ==
    \E b \in Slots :
        LET bt == batches[b]
        IN  /\ Len(bt.companionGroups) = 3
            /\ Len(bt.results) >= 2
            /\ \E n \in CallsFor(bt, 1, {"upload_photo_create_schema"}) : bt.calls[n].ret = "error"
            /\ bt.results[2].success

\* the groups of a batch whose upload call has answered with the given reply
UploadedAs(bt, reply) ==
    {g \in 1..Len(bt.companionGroups) :
        \E n \in CallsFor(bt, g, {"upload_photo_create_schema"}) :
            bt.calls[n].ret = "ok" /\ bt.calls[n].reply = reply}

\* C14: when the uploader's response has the duplicate flag set, the group's
\* outcome is DUPLICATE and is not counted as SUCCESS; when the upload
\* succeeds without the flag the outcome is SUCCESS.  In the summary the
\* duplicate count is the number of groups answered with the flag, the success
\* count the number answered without it.
C14_DuplicateFlagClassifies ==
    \A b \in Slots :
        LET bt == batches[b]
        IN  /\ \A g \in UploadedAs(bt, "duplicate") :
                  /\ Len(bt.results) >= g
                  /\ bt.results[g].success /\ bt.results[g].isDuplicate /\ ~bt.results[g].isSkipped
            /\ \A g \in UploadedAs(bt, "new") :
                  /\ Len(bt.results) >= g
                  /\ bt.results[g].success /\ ~bt.results[g].isDuplicate /\ ~bt.results[g].isSkipped
            /\ bt.pc = "done"
               => /\ bt.summary.duplicateCount = Cardinality(UploadedAs(bt, "duplicate"))
                  /\ bt.summary.successCount = Cardinality(UploadedAs(bt, "new"))

\* a finished batch of three groups: a duplicate, a new photo and a duplicate
C14_Witness ==
    \E b \in Slots :
        LET bt == batches[b]
        IN  /\ bt.pc = "done"
            /\ UploadedAs(bt, "duplicate") = {1, 3}
            /\ UploadedAs(bt, "new") = {2}
            /\ bt.summary.duplicateCount = 2
            /\ bt.summary.successCount = 1

\* C16 as stated: whenever the progress display shows k of N, k groups of the
\* batch have reached a terminal outcome.
C16_ProgressCountsCompletedGroups ==
    \A b \in Slots :
        batches[b].pc # "idle" /\ progressText.group > 0
        => /\ progressText.of = Len(batches[b].companionGroups)
           /\ Len(batches[b].results) >= progressText.group

\* C16, amended: the progress display shows the group being processed --
\* whenever it shows k of N, N is the batch's number of groups and the
\* display names the master of group k; while the batch runs, group k is in
\* process and exactly the k - 1 groups before it have an outcome; once the
\* batch has ended the display still shows N of N and all N groups have one.
C16_ProgressShowsGroupInProcess ==
    \A b \in Slots :
        LET bt == batches[b]
            k  == progressText.group
        IN  bt.pc # "idle"
            => /\ k \in 1..Len(bt.companionGroups)
               /\ progressText.of = Len(bt.companionGroups)
               /\ progressText.file = PopOr(bt.companionGroups[k].masterFile)
               /\ InFlight(b) => bt.i = k /\ Len(bt.results) = k - 1
               /\ bt.pc = "done" => k = Len(bt.companionGroups) /\ Len(bt.results) = k

\* the display shows 2 of 3 while the second group's copy is pending and only
\* the first group has its outcome
C16_Witness ==
    \E b \in Slots :
        /\ progressText.group = 2
        /\ progressText.of = 3
        /\ batches[b].pc = "copy_master"
        /\ batches[b].i = 2
        /\ Len(batches[b].results) = 1

\* the classifications among success, duplicate, skipped and failed that an
\* outcome is counted in
Classes(r) ==
    {cl \in {"success", "duplicate", "skipped", "failed"} :
        \/ cl = "success"   /\ r.success /\ ~r.isDuplicate /\ ~r.isSkipped
        \/ cl = "duplicate" /\ r.success /\ r.isDuplicate
        \/ cl = "skipped"   /\ r.isSkipped
        \/ cl = "failed"    /\ ~r.success /\ ~r.isSkipped}

\* the outcomes of a batch in another order
Permuted(bt, p) == [bt EXCEPT !.results = [k \in 1..Len(bt.results) |-> bt.results[p[k]]]]

Orders(n) == {p \in [1..n -> 1..n] : \A j \in 1..n : \E k \in 1..n : p[k] = j}

\* C17: in the summary of a finished batch the four counts sum to the number
\* of recorded outcomes, each outcome is counted in exactly one of them, and
\* the counts are the same for every order of the outcomes.
C17_CountsPartitionOutcomes ==
    \A b \in Slots :
        LET bt == batches[b]
            s  == bt.summary
            n  == Len(bt.results)
            Has(cl) == Cardinality({k \in 1..n : cl \in Classes(bt.results[k])})
        IN  bt.pc = "done"
            => /\ s.successCount + s.duplicateCount + s.skippedCount + s.failCount = n
               /\ \A k \in 1..n : Cardinality(Classes(bt.results[k])) = 1
               /\ s.successCount = Has("success")
               /\ s.duplicateCount = Has("duplicate")
               /\ s.skippedCount = Has("skipped")
               /\ s.failCount = Has("failed")
               /\ \A p \in Orders(n) :
                     LET t == Summary(Permuted(bt, p))
                     IN  /\ t.successCount = s.successCount
                         /\ t.duplicateCount = s.duplicateCount
                         /\ t.skippedCount = s.skippedCount
                         /\ t.failCount = s.failCount

\* a finished batch of three groups with a duplicate, a skipped and a failed outcome
C17_Witness ==
    \E b \in Slots :
        LET bt == batches[b]
        IN  /\ bt.pc = "done"
            /\ Len(bt.results) = 3
            /\ bt.results[1].success /\ bt.results[1].isDuplicate
            /\ Skipped(bt.results[2])
            /\ Failed(bt.results[3])
            /\ bt.summary.successCount = 0
            /\ bt.summary.duplicateCount = 1
            /\ bt.summary.skippedCount = 1
            /\ bt.summary.failCount = 1

\* the files contained in the groups of a batch: 1 + companion count per group
RECURSIVE FilesInGroups(_, _)
FilesInGroups(groups, n) ==
    IF n = 0 THEN 0 ELSE 1 + Len(groups[n].companionFiles) + FilesInGroups(groups, n - 1)

\* C18: the total file count reported in the summary of a finished batch
\* equals the sum over the batch's groups of 1 + companion count.
C18_TotalFilesIsSumOverGroups ==
    \A b \in Slots :
        LET bt == batches[b]
        IN  bt.pc = "done"
            => bt.summary.files = FilesInGroups(bt.companionGroups, Len(bt.companionGroups))

\* C19: every recorded outcome has exactly one classification among success,
\* duplicate, skipped and failed; skipped and failed outcomes carry no
\* identity hash, duplicate outcomes (and new ones) carry one.
C19_OneClassificationAndHash ==
    \A b \in Slots :
        \A k \in 1..Len(batches[b].results) :
            LET r == batches[b].results[k]
            IN  /\ \E cl \in Classes(r) : Classes(r) = {cl}
                /\ Classes(r) \subseteq {"skipped", "failed"} => r.hothash = Null
                /\ Classes(r) \subseteq {"duplicate", "success"} => r.hothash \in Hashes
                /\ "skipped" \in Classes(r) <=> r.skipReason # NoText
                /\ "failed" \in Classes(r) <=> r.error # NoText

\* a batch has recorded a skipped, a failed and a duplicate outcome
C19_Witness ==
    \E b \in Slots :
        LET bt == batches[b]
        IN  /\ Len(bt.results) = 3
            /\ Classes(bt.results[1]) = {"skipped"}
            /\ Classes(bt.results[2]) = {"failed"}
            /\ Classes(bt.results[3]) = {"duplicate"}
            /\ bt.results[3].hothash # Null

\* C20: in register mode no file-copy call is made during the batch, and
\* every file record (master and companions) of every uploaded descriptor
\* is the record of a file of the group and has its stored path equal to its
\* source path, the path of the file itself.
C20_RegisterModeLeavesFilesInPlace ==
    \A b \in Slots :
        LET bt == batches[b]
        IN  bt.pc # "idle" /\ ~bt.isCopyMode
            => /\ \A n \in 1..Len(bt.calls) : bt.calls[n].op # "copy_file_to_storage"
               /\ \A n \in 1..Len(bt.calls) :
                     bt.calls[n].op = "upload_photo_create_schema"
                     => LET group == bt.companionGroups[bt.calls[n].group]
                            list  == bt.calls[n].arg.photoCreateSchema.image_file_list
                        IN  \A e \in 1..Len(list) :
                                /\ list[e].local_storage_info.import_mode = "register"
                                /\ list[e].local_storage_info.source_path \in Range(group.allFiles)
                                /\ list[e].filename = PopOr(list[e].local_storage_info.source_path)
                                /\ list[e].local_storage_info.storage_path
                                      = list[e].local_storage_info.source_path

\* a register-mode batch, started with a destination directory chosen, has
\* uploaded a group with two companions
C20_Witness ==
    \E b \in Slots :
        LET bt == batches[b]
        IN  /\ ~bt.isCopyMode
            /\ bt.destinationPath # Empty
            /\ Len(bt.results) = 1
            /\ bt.results[1].success
            /\ bt.results[1].companionCount = 2
            /\ ListOf(bt, 1) = "master"
            /\ CallsFor(bt, 1, {"upload_photo_create_schema"}) # {}

\* the calls a batch has issued for group g, in the order of their issue
SeqFor(bt, g) == SelectSeq(bt.calls, LAMBDA call : call.group = g)

\* two runs of the same batch: the same groups, mode, destination and channel
SameBatch(x, y) ==
    /\ x.companionGroups = y.companionGroups
    /\ x.isCopyMode = y.isCopyMode
    /\ x.destinationPath = y.destinationPath
    /\ x.inputChannelId = y.inputChannelId

\* the first n calls for a group were answered alike in both runs
AnsweredAlike(cx, cy, n) ==
    \A m \in 1..n :
        /\ m <= Len(cx) /\ m <= Len(cy)
        /\ cx[m].ret = cy[m].ret
        /\ cx[m].reply = cy[m].reply
        /\ cx[m].list = cy[m].list

\* C15: group outcomes are independent -- in two finished runs of the same
\* batch, whatever the external services answered to the calls of the other
\* groups, a group k whose own calls were answered alike so far receives the
\* same next call with the same arguments in both runs (its first call in any
\* case), and if all its calls were answered alike it gets the same outcome.
C15_GroupsIndependent ==
    \A a, b \in Slots :
        LET x == batches[a]
            y == batches[b]
        IN  x.pc = "done" /\ y.pc = "done" /\ SameBatch(x, y)
            => \A k \in 1..Len(x.companionGroups) :
                  LET cx == SeqFor(x, k)
                      cy == SeqFor(y, k)
                  IN  /\ \A n \in 0..Len(cx) :
                            AnsweredAlike(cx, cy, n)
                            => /\ Len(cx) > n <=> Len(cy) > n
                               /\ Len(cx) > n => /\ cx[n + 1].op = cy[n + 1].op
                                                  /\ cx[n + 1].arg = cy[n + 1].arg
                      /\ AnsweredAlike(cx, cy, Len(cx)) /\ Len(cx) = Len(cy)
                         => x.results[k] = y.results[k]

\* two finished copy-mode runs of one batch of two groups: the first group's
\* master copy failed in one run and the group was uploaded in the other; the
\* second group was answered alike and was uploaded in both
C15_Witness ==
    \E a, b \in Slots :
        LET x == batches[a]
            y == batches[b]
        IN  /\ a # b
            /\ x.pc = "done" /\ y.pc = "done" /\ SameBatch(x, y)
            /\ x.isCopyMode
            /\ Len(x.companionGroups) = 2
            /\ Failed(x.results[1]) /\ y.results[1].success
            /\ AnsweredAlike(SeqFor(x, 2), SeqFor(y, 2), Len(SeqFor(x, 2)))
            /\ x.results[2].success /\ y.results[2].success

\* the fields of a file record: none of hotpreview, hothash or EXIF
FileRecordFields ==
    {"filename", "file_size", "format", "is_raw", "local_storage_info", "imported_info"}

\* the descriptor of an upload call for a group lists the group's files: the
\* master's record first, with the master's storage record, then one record
\* per companion in companionFiles order
ListsGroup(call, group) ==
    LET list == call.arg.photoCreateSchema.image_file_list
    IN  /\ call.arg.photoCreateSchema.image_file_list_defined
        /\ Len(list) = 1 + Len(group.companionFiles)
        /\ list[1].filename = PopOr(group.masterFile)
        /\ list[1].local_storage_info.source_path = group.masterFile
        /\ list[1].local_storage_info.storage_path # Empty
        /\ list[1].local_storage_info.companion_files = FileNames(group.allFiles)
        /\ \A c \in 1..Len(group.companionFiles) :
              /\ list[c + 1].filename = PopOr(group.companionFiles[c])
              /\ list[c + 1].local_storage_info.source_path = group.companionFiles[c]
              /\ list[c + 1].local_storage_info.storage_path # Empty
              /\ DOMAIN list[c + 1] = FileRecordFields

UploadsToBatchChannel(bt) ==
    /\ \A g \in 1..Len(bt.companionGroups) :
          Cardinality(CallsFor(bt, g, {"upload_photo_create_schema"})) <= 1
    /\ \A n \in 1..Len(bt.calls) :
          bt.calls[n].op = "upload_photo_create_schema"
          => /\ bt.calls[n].arg.inputChannelId = bt.inputChannelId
             /\ bt.calls[n].arg.photoCreateSchema.input_channel_id = bt.inputChannelId
             /\ bt.inputChannelId # NullId

\* C22: for each group the uploader is called at most once, and every
\* descriptor it receives in a batch carries the channel identifier that was
\* selected when the batch started -- a batch takes the selected channel
\* when it starts, keeps it while it runs whatever is selected meanwhile, and
\* all its uploads carry it.
C22_UploadsCarryChannelOfStart ==
    [][ \A b \in Slots :
            /\ ~InFlight(b) /\ InFlight(b)'
               => batches'[b].inputChannelId = selectedInputChannelId
            /\ InFlight(b) /\ batches'[b] # batches[b]
               => batches'[b].inputChannelId = batches[b].inputChannelId
            /\ UploadsToBatchChannel(batches'[b]) ]_vars

\* a running batch has issued an upload for the channel it started with
\* after another channel was selected
C22_Witness ==
    \E b \in Slots :
        LET bt == batches[b]
        IN  /\ bt.pc = "upload_photo_create_schema"
            /\ selectedInputChannelId # bt.inputChannelId
            /\ bt.calls[Len(bt.calls)].arg.inputChannelId = bt.inputChannelId
            /\ bt.calls[Len(bt.calls) - 1].op = "get_file_size"
            /\ selectedInputChannelId # NullId

\* the origin-type hints of the file records in the descriptors a batch has submitted
HintsOf(bt) ==
    UNION { { bt.calls[n].arg.photoCreateSchema.image_file_list[e].local_storage_info.imported_from :
                e \in 1..Len(bt.calls[n].arg.photoCreateSchema.image_file_list) } :
            n \in {m \in 1..Len(bt.calls) : bt.calls[m].op = "upload_photo_create_schema"} }

\* C23: all file records produced by one batch (masters and companions of
\* every group) carry the same origin-type hint, even if another source
\* directory is selected while the batch is in flight.
C23_OneHintPerBatch ==
    \A b \in Slots : Cardinality(HintsOf(batches[b])) <= 1

\* C24: while a batch is in flight the selected-files list and the selected
\* channel identifier keep the values they had when the batch started: no
\* event handled while some batch is in flight changes either of them.
C24_SelectionFrozenInFlight ==
    [][ (\E b \in Slots : InFlight(b)) =>
            /\ selectedFiles' = selectedFiles
            /\ selectedInputChannelId' = selectedInputChannelId ]_vars

\* the call invocation b awaits, and whether it has one
PendingOf(bt) == bt.calls[Len(bt.calls)]
HasPending(bt) == bt.calls # <<>> /\ PendingOf(bt).ret = "pending"

\* C28: the orchestrator imposes no timeout and never abandons a pending
\* call.  A batch in flight awaits exactly one call, for the group after the
\* outcomes recorded; while that call has not returned the invocation does
\* nothing -- no outcome is recorded and no call is issued -- and the next
\* thing it does is take the call's answer.  With services that answer every
\* call a started batch ends with an outcome recorded for every group.
C28_NoTimeoutNoAbandon ==
    /\ [](\A b \in Slots :
             InFlight(b) => /\ HasPending(batches[b])
                            /\ PendingOf(batches[b]).group = Len(batches[b].results) + 1)
    /\ [][ \A b \in Slots :
               InFlight(b) /\ batches'[b] # batches[b] =>
                   LET n == Len(batches[b].calls)
                   IN  /\ Len(batches'[b].calls) >= n
                       /\ batches'[b].calls[n].ret # "pending"
                       /\ [batches'[b].calls[n] EXCEPT !.ret = "pending", !.reply = "none",
                                                       !.list = "none"]
                             = PendingOf(batches[b]) ]_vars
    /\ \A b \in Slots :
          InFlight(b) ~> /\ batches[b].pc = "done"
                         /\ Len(batches[b].results) = Len(batches[b].companionGroups)

\* a batch of two groups has ended with both outcomes, the second group having
\* waited for an upload
C28_Witness ==
    \E b \in Slots :
        LET bt == batches[b]
        IN  /\ bt.pc = "done"
            /\ Len(bt.companionGroups) = 2
            /\ Len(bt.results) = 2
            /\ CallsFor(bt, 2, {"upload_photo_create_schema"}) # {}

\* the calls startImport makes to the backend
BatchOps == {"process_image_file", "copy_file_to_storage", "get_file_size",
             "upload_photo_create_schema"}

\* C29: there is no rollback.  While an invocation runs, an outcome once
\* recorded is never changed or removed -- the result list only grows, by
\* one outcome appended at its end -- and the calls that have returned stay
\* as they were: whatever happens to a later group, the only calls made are
\* extractor, copy, file-size and upload calls, none of which undoes a copy or
\* an upload of an earlier group.
C29_NoRollback ==
    [][ \A b \in Slots :
            InFlight(b) =>
                LET old == batches[b]
                    new == batches'[b]
                IN  /\ Len(new.results) \in {Len(old.results), Len(old.results) + 1}
                    /\ SubSeq(new.results, 1, Len(old.results)) = old.results
                    /\ Len(new.calls) >= Len(old.calls)
                    /\ \A n \in 1..(Len(old.calls) - 1) : new.calls[n] = old.calls[n]
                    /\ \A n \in 1..Len(new.calls) : new.calls[n].op \in BatchOps ]_vars

\* the first group was copied and uploaded, the second group has failed, and
\* the batch has ended with the first group's outcome and calls as they were
C29_Witness ==
    \E b \in Slots :
        LET bt == batches[b]
        IN  /\ bt.pc = "done"
            /\ Len(bt.results) = 2
            /\ bt.results[1].success
            /\ Failed(bt.results[2])
            /\ \E n \in CallsFor(bt, 1, {"copy_file_to_storage"}) : bt.calls[n].ret = "ok"
            /\ \E n \in CallsFor(bt, 1, {"upload_photo_create_schema"}) : bt.calls[n].ret = "ok"

\* the placement calls of the first n companions: for each its copy (copy
\* mode) and its file-size lookup
RECURSIVE CompanionCalls(_, _, _)
CompanionCalls(bt, files, n) ==
    IF n = 0 THEN <<>>
    ELSE CompanionCalls(bt, files, n - 1)
         \o (IF Copies(bt) THEN <<[op |-> "copy_file_to_storage", file |-> files[n]]>>
             ELSE <<>>)
         \o <<[op |-> "get_file_size", file |-> files[n]]>>

\* the calls of a group that reaches its upload, in the state-machine order
GroupCalls(bt, g) ==
    LET group == bt.companionGroups[g]
    IN  <<[op |-> "process_image_file", file |-> group.masterFile]>>
        \o (IF Copies(bt) THEN <<[op |-> "copy_file_to_storage", file |-> group.masterFile]>>
            ELSE <<>>)
        \o CompanionCalls(bt, group.companionFiles, Len(group.companionFiles))
        \o <<[op |-> "upload_photo_create_schema", file |-> group.masterFile]>>

\* a call is the call the state machine makes for a file
CallIs(bt, call, step) ==
    /\ call.op = step.op
    /\ call.op \in {"process_image_file", "copy_file_to_storage"} => call.arg = step.file
    /\ call.op = "get_file_size" =>
           call.arg \in {step.file, CopiedPath(step.file, bt.destinationPath)}

\* C30: for each group the external calls occur in the state-machine order --
\* extract the master, then (copy mode) copy the master, then for each
\* companion in order its copy (copy mode) and its file-size lookup, then the
\* upload: the calls made for a group are always a beginning of that
\* sequence, each one issued after the one before has returned, and an upload
\* comes after all the others and is the last call for the group.
C30_CallsInStateMachineOrder ==
    \A b \in Slots :
        LET bt == batches[b]
        IN  \A g \in 1..Len(bt.companionGroups) :
                LET seq   == SeqFor(bt, g)
                    steps == GroupCalls(bt, g)
                IN  /\ Len(seq) <= Len(steps)
                    /\ \A n \in 1..Len(seq) : CallIs(bt, seq[n], steps[n])
                    /\ \A n \in 1..(Len(seq) - 1) : seq[n].ret # "pending"
                    /\ \A n \in 1..Len(seq) :
                          seq[n].op = "upload_photo_create_schema" => n = Len(seq) /\ n = Len(steps)

\* copy mode, a group with two companions: seven calls, the upload after the
\* second companion's file size
C30_Witness ==
    \E b \in Slots :
        LET bt  == batches[b]
            seq == SeqFor(bt, 1)
        IN  /\ Copies(bt)
            /\ Len(bt.companionGroups) = 1
            /\ Len(bt.companionGroups[1].companionFiles) = 2
            /\ Len(seq) = 7
            /\ seq[7].op = "upload_photo_create_schema"
            /\ seq[6].op = "get_file_size"

(***************************************************************************)
(* Properties of groupCompanionFiles: the structure of a group            *)
(***************************************************************************)

\* the positions of the input list that hold the given path
OccurrencesOf(path) == {k \in 1..Len(filePaths) : filePaths[k] = path}

MembersOf(g) ==
    LET first == CHOOSE k \in 1..Len(filePaths) : filePaths[k] = companionGroups[g].allFiles[1]
    IN  SameGroupAt(first)

\* the elements of a list at a set of positions, in the order of the list
RECURSIVE Pick(_, _, _)
Pick(list, at, n) ==
    IF n = 0 THEN <<>>
    ELSE IF n \in at THEN Append(Pick(list, at, n - 1), list[n])
    ELSE Pick(list, at, n - 1)

\* C26: in every returned group allFiles lists the group's files in the
\* order they occur in the input, and companionFiles is allFiles with the
\* master (one position of allFiles) removed, in that same order.
C26_InputOrderKept ==
    grouped =>
        \A g \in 1..Len(companionGroups) :
            LET gr == companionGroups[g]
            IN  /\ gr.allFiles = Pick(filePaths, MembersOf(g), Len(filePaths))
                /\ \E idx \in 1..Len(gr.allFiles) :
                      /\ gr.allFiles[idx] = gr.masterFile
                      /\ gr.companionFiles =
                            Pick(gr.allFiles, (1..Len(gr.allFiles)) \ {idx}, Len(gr.allFiles))

\* a cr2, a jpg and a png of one stem in this order: the companions are the
\* cr2 and the png, in input order and not in the order of their ranks
C26_Witness ==
    /\ grouped
    /\ filePaths = << Part(DirD, s_a, TRUE, e_cr2, e_cr2).path,
                      Part(DirD, s_a, TRUE, e_jpg, e_jpg).path,
                      Part(DirD, s_a, TRUE, e_png, e_png).path >>
    /\ Len(companionGroups) = 1
    /\ companionGroups[1].companionFiles =
          << Part(DirD, s_a, TRUE, e_cr2, e_cr2).path, Part(DirD, s_a, TRUE, e_png, e_png).path >>

\* the first position of the input list that belongs to group g
FirstOf(g) == CHOOSE k \in MembersOf(g) : \A m \in MembersOf(g) : k <= m

\* C27: the groups are returned in the order in which their grouping key
\* (directory + stem) first occurs in the input list.
C27_GroupsInFirstOccurrenceOrder ==
    grouped =>
        \A g, h \in 1..Len(companionGroups) :
            g < h => FirstOf(g) < FirstOf(h)

\* stem b, stem a, stem b again: the group of b comes first, with two files
C27_Witness ==
    /\ grouped
    /\ Len(filePaths) = 3
    /\ PartsOf(filePaths[1]).stem = s_b /\ PartsOf(filePaths[2]).stem = s_a
    /\ PartsOf(filePaths[3]).stem = s_b
    /\ PartsOf(filePaths[2]).dir = DirD /\ PartsOf(filePaths[2]).dot
    /\ Len(companionGroups) = 2
    /\ Len(companionGroups[1].allFiles) = 2
    /\ Len(companionGroups[2].allFiles) = 1

\* the directory and the stem of the files of group g
KeyPartsOf(g) == PartsOf(companionGroups[g].allFiles[1])

\* C31 as stated: each group's basename field is its grouping key, the
\* directory joined with the file-name stem, so groups that come from different
\* directories always have different basenames.
C31_BasenameIsGroupingKey ==
    grouped =>
        /\ \A g \in 1..Len(companionGroups) :
              companionGroups[g].basename = KeyPartsOf(g).dir \o <<"/">> \o KeyPartsOf(g).stem
        /\ \A g, h \in 1..Len(companionGroups) :
              KeyPartsOf(g).dir # KeyPartsOf(h).dir =>
                  companionGroups[g].basename # companionGroups[h].basename

\* C31, amended: each group's basename field is the file-name stem alone, the
\* last '/'-separated part of its grouping key (the whole key when the stem is
\* empty); the groups differ pairwise in directory or stem, and groups from
\* different directories with the same stem have the same basename.
C31_BasenameIsStem ==
    grouped =>
        /\ \A g \in 1..Len(companionGroups) :
              companionGroups[g].basename =
                  IF KeyPartsOf(g).stem # <<>> THEN KeyPartsOf(g).stem
                  ELSE KeyPartsOf(g).dir \o <<"/">>
        /\ \A g, h \in 1..Len(companionGroups) :
              g # h => \/ KeyPartsOf(g).dir # KeyPartsOf(h).dir
                       \/ KeyPartsOf(g).stem # KeyPartsOf(h).stem

\* two groups of the same stem from two directories, with the same basename
C31_Witness ==
    /\ grouped
    /\ Len(companionGroups) = 2
    /\ KeyPartsOf(1).dir # KeyPartsOf(2).dir
    /\ companionGroups[1].basename = s_a
    /\ companionGroups[2].basename = s_a

\* C32: when the file-size call for a companion of a group fails, in register
\* mode as in copy mode, the group's outcome is FAILED with the error text, no
\* later companion is placed and no upload is made for the group, and the
\* batch goes on: the extractor is called for the next group's master, or the
\* batch ends when the group was the last.
C32_FileSizeFailureFailsGroup ==
    \A b \in Slots :
        LET bt == batches[b]
        IN  \A g \in 1..Len(bt.companionGroups) :
                \A n \in CallsFor(bt, g, {"get_file_size"}) :
                    bt.calls[n].ret = "error"
                    => /\ Len(bt.results) >= g
                       /\ Failed(bt.results[g])
                       /\ bt.results[g].error # NoText
                       /\ bt.results[g].hothash = Null
                       /\ CallsFor(bt, g, {"upload_photo_create_schema"}) = {}
                       /\ \A m \in CallsFor(bt, g, BatchOps) : m <= n
                       /\ IF g < Len(bt.companionGroups)
                          THEN \E m \in CallsFor(bt, g + 1, {"process_image_file"}) :
                                  /\ m = n + 1
                                  /\ bt.calls[m].arg = bt.companionGroups[g + 1].masterFile
                          ELSE bt.pc = "done" /\ n = Len(bt.calls)

\* register mode, three groups: the file size of the first group's companion
\* could not be read, and the second group has been uploaded
C32_Witness ==
    \E b \in Slots :
        LET bt == batches[b]
        IN  /\ ~bt.isCopyMode
            /\ Len(bt.companionGroups) = 3
            /\ Len(bt.results) >= 2
            /\ \E n \in CallsFor(bt, 1, {"get_file_size"}) : bt.calls[n].ret = "error"
            /\ Failed(bt.results[1])
            /\ bt.results[2].success

\* C33: every upload call issued by a batch carries a non-null auth token,
\* also when a logout happens while the batch is in flight.
C33_UploadCarriesToken ==
    \A b \in Slots :
        \A n \in 1..Len(batches[b].calls) :
            batches[b].calls[n].op = "upload_photo_create_schema"
            => batches[b].calls[n].arg.authToken # Null

\* C35: handleLogout always clears the auth token and the current user when
\* its logout call has returned, also when that call has failed; while the
\* token is cleared no click on the start button starts a batch, and the token
\* stays cleared until a login succeeds.
C35_LogoutClearsAndRefuses ==
    [][ /\ logouts' < logouts => authToken' = Null /\ currentUser' = Null
        /\ authToken = Null =>
              \A b \in Slots : ~InFlight(b) => batches'[b] = batches[b]
        /\ authToken = Null /\ authToken' # Null => \E t \in Tokens : LoginOk(t) ]_vars

\* a batch was started and the user has logged out since: the logout call has
\* returned and token and user are cleared
C35_Witness ==
    /\ \E b \in Slots : batches[b].pc # "idle"
    /\ logouts = 0
    /\ authToken = Null
    /\ currentUser = Null

\* C34: whenever no directory scan is in flight, the selected-files list is
\* the scan result of the most recently selected source directory
\* (selectedDirPath), or empty: it never holds the files of an earlier
\* selection.
C34_FilesOfLatestSelection ==
    scans = <<>> /\ selectedDirPath # NullPath
    => selectedFiles \in SmallScans(selectedDirPath) \union {<<>>}

\* the status line of a start refused for a missing copy destination
NoDestination == "Feil: Du ma velge destinasjonskatalog for Copy-modus"

\* C36: a batch that passed the authentication and channel checks disables
\* the start button -- the step in which an invocation gets in flight leaves
\* the button disabled -- and re-enables it when it ends: the step in which an
\* invocation ends after its last group, or is refused for a missing copy
\* destination, leaves the button enabled.
C36_StartButtonReenabled ==
    [][ /\ \A b \in Slots :
              /\ ~InFlight(b) /\ InFlight(b)' => startDisabled'
              /\ InFlight(b) /\ ~InFlight(b)' =>
                    ~startDisabled' /\ batches'[b].pc = "done"
        /\ status' = NoDestination /\ status # NoDestination => ~startDisabled' ]_vars

\* a batch has ended after two groups, the second of which failed, and the
\* start button is enabled
C36_Witness ==
    \E b \in Slots :
        /\ batches[b].pc = "done"
        /\ Len(batches[b].results) = 2
        /\ Failed(batches[b].results[2])
        /\ ~startDisabled

====
